---- MODULE Spec2Model ----
(***************************************************************************)
(* The agent execution loop of V3AgentHandler (v3AgentHandler.ts) in its   *)
(* two backends, the AI SDK tool-calling path (generateText with           *)
(* onStepFinish = createStepHandler) and the OAuth / Code Assist path      *)
(* (executeWithCodeAssist), together with the non-streaming wrapper        *)
(* V3.agent().execute() that opens and closes the replay recording and     *)
(* stores the run in the agent cache (Spec).  CacheSpec follows several    *)
(* execute() calls made one after the other on one V3 instance, with the   *)
(* handler seen through its outcome: fingerprint, replay, recording and    *)
(* store.  StreamSpec is stream() of the AI SDK backend with its result    *)
(* promise, and RetrySpec one createChatCompletion call of the Code Assist *)
(* client with its requests, retries and delays.  Token usage is summed in *)
(* totalUsage and reported in the result and to the metrics.               *)
(* ProviderSpec is one LLMProvider.getClient call and the backend the      *)
(* handler routes its client to, ActSpec V3.act() calls with the act cache *)
(* around a recording session, OverlapSpec two execute() calls in flight   *)
(* on one instance, MetricsSpec a sequence of V3.updateMetrics calls and   *)
(* CloseSpec init() followed by interleaved V3.close() calls.              *)
(*                                                                         *)
(* A string is a sequence of chunks; the chunk " " is a blank, every other *)
(* chunk is non-blank text.  The live page URL is a counter that every     *)
(* successful tool execution advances (tools may navigate).                *)
(***************************************************************************)
EXTENDS Integers, Sequences, FiniteSets, TLC

VARIABLES
  cfg,           \* agent configuration and execute options of this call
  prepared,      \* whether prepareAgent has run: "no", "ok" or "failed"
  pc,            \* position of the call
  state,         \* AgentState of the handler invocation
  stepNumber,    \* stepNumber of createStepHandler / executeWithCodeAssist
  step,          \* loop variable `step` of executeWithCodeAssist
  responses,     \* model responses obtained so far (result.steps of the SDK)
  toolIdx,       \* index of the next tool call of the current step
  toolResults,   \* toolResults of the current executeWithCodeAssist iteration
  chatMessages,  \* chatMessages of executeWithCodeAssist
  updates,       \* AgentStepUpdates delivered to options.onStep, in order
  log,           \* observable events of the run, in order
  page,          \* URL of the live page
  recording,     \* the agent cache's replay recording session
  error,         \* exception raised inside the try block of execute()
  outcome,       \* how V3AgentHandler.execute() ended
  cache,         \* entries of the agent cache, one per fingerprint
  exec,          \* the agent().execute() call in progress on the V3 instance
  execs,         \* number of agent().execute() calls made on the V3 instance
  promise,       \* the result promise of the AgentStreamResult of stream()
  totalUsage,    \* totalUsage of executeWithCodeAssist
  usage,         \* the usage field of the AgentResult that execute() returned
  metrics,       \* the increments V3.updateMetrics received, in order
  client,        \* one CodeAssistClient.createChatCompletion call
  llm,           \* one LLMProvider.getClient call and the backend it routes to
  act,           \* one V3.act() call after the other and the act cache
  inflight,      \* two overlapping agent().execute() calls on one V3 instance
  stagehandMetrics, \* V3.stagehandMetrics and the number of updateMetrics calls
  inst           \* the V3 instance as close() sees it, and the close() calls

vars == <<cfg, prepared, pc, state, stepNumber, step, responses, toolIdx, toolResults,
          chatMessages, updates, log, page, recording, error, outcome, cache, exec, execs,
          promise, totalUsage, usage, metrics, client, llm, act, inflight, stagehandMetrics, inst>>

\* the variables of one handler invocation
runVars == <<prepared, pc, state, stepNumber, step, responses, toolIdx, toolResults,
             chatMessages, updates, log, error, outcome>>

\* the variables of the cache and of the sequence of calls
callVars == <<cache, exec, execs>>

\* the variables that execute() and its loop never touch
\* the variables of the specifications of single components
auxVars == <<llm, act, inflight, stagehandMetrics, inst>>

sideVars == <<promise, client, auxVars>>

\* token accounting
usageVars == <<totalUsage, usage, metrics>>

---------------------------------------------------------------------------
(* Bounds of the model *)

\* tool calls the model returns over one run, all steps together
MaxCalls == 2
\* largest maxSteps option a caller passes (0 stands for "omitted")
MaxStepsOpt == 2
\* agent().execute() calls made one after the other on one V3 instance
MaxExecs == 2
\* largest retries argument a caller of createChatCompletion passes
MaxRetries == 3
\* tool steps one of two overlapping agent().execute() calls records
MaxOwnSteps == 2
\* V3.act() calls made one after the other on one V3 instance
MaxActs == 3
MaxUpdates == 2
MaxClosers == 2

DefaultMaxSteps == 20

---------------------------------------------------------------------------
(* Strings *)

Str(s) == <<s>>
Truthy(s) == s # <<>>

RECURSIVE Join(_)
Join(ss) ==
  IF ss = <<>> THEN <<>>
  ELSE IF Len(ss) = 1 THEN ss[1]
  ELSE ss[1] \o <<" ">> \o Join(Tail(ss))

RECURSIVE TrimLeft(_)
TrimLeft(s) == IF s # <<>> /\ Head(s) = " " THEN TrimLeft(Tail(s)) ELSE s

RECURSIVE TrimRight(_)
TrimRight(s) ==
  IF s # <<>> /\ s[Len(s)] = " " THEN TrimRight(SubSeq(s, 1, Len(s) - 1)) ELSE s

Trim(s) == TrimRight(TrimLeft(s))

\* Array.prototype.slice(-n): slice(-0) is slice(0), the whole array
SliceLast(seq, n) ==
  IF n = 0 \/ n >= Len(seq) THEN seq ELSE SubSeq(seq, Len(seq) - n + 1, Len(seq))

SeqsUpTo(S, n) == UNION {[1..k -> S] : k \in 0..n}

RECURSIVE SumLen(_)
SumLen(rs) == IF rs = <<>> THEN 0 ELSE Len(Head(rs).toolCalls) + SumLen(Tail(rs))

---------------------------------------------------------------------------
(* Inputs: what the model returns and what the tools do *)

Texts == {<<>>, Str("a")}

CloseCalls ==
  { [name |-> "close", taskComplete |-> TRUE, reasoning |-> Str("c"), throws |-> FALSE, n |-> 1],
    [name |-> "close", taskComplete |-> TRUE, reasoning |-> <<>>, throws |-> FALSE, n |-> 1],
    [name |-> "close", taskComplete |-> FALSE, reasoning |-> <<>>, throws |-> FALSE, n |-> 1] }

\* a known tool whose result maps to n actions, a known tool that throws,
\* and a tool name that is not in allTools
PageCalls ==
  { [name |-> "goto", taskComplete |-> FALSE, reasoning |-> <<>>, throws |-> FALSE, n |-> k] : k \in 0..2 }
  \cup { [name |-> "goto", taskComplete |-> FALSE, reasoning |-> <<>>, throws |-> TRUE, n |-> 1],
         [name |-> "bogus", taskComplete |-> FALSE, reasoning |-> <<>>, throws |-> FALSE, n |-> 1] }

AllCalls == CloseCalls \cup PageCalls

AllTools == {"close", "goto"}

\* response.usage as the provider reports it; -1 stands for a count that is
\* missing from the report
NoUsage == [present |-> FALSE, prompt_tokens |-> -1, completion_tokens |-> -1]

\* the usage report that comes with a response: none, one without the
\* completion count, or a full one
UsageOf(t, c) ==
  IF ~Truthy(t) /\ Len(c) = 0 THEN NoUsage
  ELSE IF ~Truthy(t) THEN [present |-> TRUE, prompt_tokens |-> 2, completion_tokens |-> -1]
  ELSE [present |-> TRUE, prompt_tokens |-> 3, completion_tokens |-> Len(c) + 1]

\* the usage report of a response without choices
NoChoiceUsage == [present |-> TRUE, prompt_tokens |-> 1, completion_tokens |-> 1]

Responses(left) ==
  { [text |-> t, toolCalls |-> c, usage |-> UsageOf(t, c)] :
      t \in Texts, c \in SeqsUpTo(AllCalls, left) }

ErrProvider == "provider failure"
ErrPaused == "paused"

---------------------------------------------------------------------------
(* Records *)

NoResult == [success |-> FALSE, message |-> <<>>, actions |-> <<>>, completed |-> FALSE]
NoOutcome == [kind |-> "none", result |-> NoResult, error |-> "none"]
Returned(r) == [kind |-> "result", result |-> r, error |-> "none"]
Thrown(e) == [kind |-> "throw", result |-> NoResult, error |-> e]

\* the usage field of an AgentResult; absent in NoReport
NoReport ==
  [present |-> FALSE, input_tokens |-> 0, output_tokens |-> 0, reasoning_tokens |-> 0,
   cached_input_tokens |-> 0]

ZeroUsage == [prompt_tokens |-> 0, completion_tokens |-> 0]

\* the states of a promise
Pending == [settled |-> "pending", result |-> NoResult, error |-> "none"]
Resolved(r) == [settled |-> "resolved", result |-> r, error |-> "none"]
Rejected(e) == [settled |-> "rejected", result |-> NoResult, error |-> e]

NoState ==
  [collectedReasoning |-> <<>>, actions |-> <<>>, finalMessage |-> <<>>,
   completed |-> FALSE, currentPageUrl |-> 0]

Ev(e, s, i) == [e |-> e, step |-> s, idx |-> i]

---------------------------------------------------------------------------
(* Replay recording session of the agent cache *)

NoRecording == [active |-> FALSE, steps |-> <<>>]
BeginRecording == [active |-> TRUE, steps |-> <<>>]
RecordStep(rec, s) == IF rec.active THEN [rec EXCEPT !.steps = Append(@, s)] ELSE rec
EndRecording(rec) == NoRecording
DiscardRecording(rec) == NoRecording

---------------------------------------------------------------------------
(* Pure parts of V3AgentHandler *)

IsOAuthMode(c) == c.clientType = "google-oauth"

\* options.maxSteps || 20
MaxStepsOf(c) == IF c.maxSteps = 0 THEN DefaultMaxSteps ELSE c.maxSteps

\* mapToolResultToActions: the actions one tool call's result maps to
MapToolResultToActions(call, s, i) ==
  [k \in 1..call.n |->
     [type |-> call.name, call |-> <<s, i>>, k |-> k,
      taskCompleted |-> (call.name = "close" /\ call.taskComplete), pageUrl |-> 0]]

\* action.pageUrl = state.currentPageUrl for every mapped action
Stamp(actions, url) == [k \in 1..Len(actions) |-> [actions[k] EXCEPT !.pageUrl = url]]

LastReasoning(st) ==
  IF st.collectedReasoning = <<>> THEN <<>>
  ELSE st.collectedReasoning[Len(st.collectedReasoning)]

\* event.text || state.collectedReasoning.slice(-1)[0] || ""
UpdateMessage(st, text) == IF Truthy(text) THEN text ELSE LastReasoning(st)

SdkStartedUpdate(n, url) ==
  [stepNumber |-> n, actions |-> <<>>, message |-> <<>>, completed |-> FALSE,
   currentUrl |-> url]

SdkCompletedUpdate(n, st, event) ==
  [stepNumber |-> n, actions |-> SliceLast(st.actions, Len(event.toolCalls)),
   message |-> UpdateMessage(st, event.text), completed |-> TRUE,
   currentUrl |-> st.currentPageUrl]

\* the 0-based loop variable used as the step number
RestStartedUpdateZeroBased(n, url) ==
  [stepNumber |-> n - 1, actions |-> <<>>, message |-> <<>>, completed |-> FALSE,
   currentUrl |-> url]

RestStartedUpdate(n, url) ==
  [stepNumber |-> n, actions |-> <<>>, message |-> <<>>, completed |-> FALSE,
   currentUrl |-> url]

RestCompletedUpdate(n, st, text, mapped) ==
  [stepNumber |-> n, actions |-> SliceLast(st.actions, Len(mapped)),
   message |-> UpdateMessage(st, text), completed |-> TRUE,
   currentUrl |-> st.currentPageUrl]

\* options.onStep(update), when onStep is supplied
Deliver(c, ups, u) == IF c.onStep THEN Append(ups, u) ELSE ups
Delivered(c, lg, ups, u) ==
  IF c.onStep
  THEN Append(lg, Ev(IF u.completed THEN "completed" ELSE "started", u.stepNumber, Len(ups) + 1))
  ELSE lg

\* the final message computed when close signals task completion
CloseMessage(st, closeReasoning) ==
  LET allReasoning == Join(st.collectedReasoning)
  IN  IF Truthy(closeReasoning)
      THEN Trim(allReasoning \o <<" ">> \o closeReasoning)
      ELSE IF Truthy(allReasoning) THEN allReasoning
           ELSE Str("Task completed successfully")

\* createStepHandler, lines 177-186
SdkClose(st, args) ==
  LET st1 == [st EXCEPT !.completed = TRUE]
  IN  IF args.taskComplete
      THEN [st1 EXCEPT !.finalMessage = CloseMessage(st1, args.reasoning)]
      ELSE st1

\* executeWithCodeAssist, lines 432-442
RestClose(st, args) ==
  LET st1 == [st EXCEPT !.completed = TRUE]
  IN  IF args.taskComplete
      THEN [st1 EXCEPT !.finalMessage = CloseMessage(st1, args.reasoning)]
      ELSE [st1 EXCEPT !.finalMessage = Str("Task could not be completed")]

\* unshift instead of push
PushActionsPrepend(st, mapped) ==
  [st EXCEPT !.actions = Stamp(mapped, st.currentPageUrl) \o @]

\* state.actions.push(action) for every mapped action
PushActions(st, mapped) == [st EXCEPT !.actions = @ \o Stamp(mapped, st.currentPageUrl)]

\* the for loop over event.toolCalls of createStepHandler
RECURSIVE SdkProcessCalls(_, _, _, _)
SdkProcessCalls(st, event, n, i) ==
  IF i > Len(event.toolCalls) THEN st
  ELSE LET call == event.toolCalls[i]
           st1 == IF Truthy(event.text)
                  THEN [st EXCEPT !.collectedReasoning = Append(@, event.text)]
                  ELSE st
           st2 == IF call.name = "close" THEN SdkClose(st1, call) ELSE st1
           st3 == PushActions(st2, MapToolResultToActions(call, n, i))
       IN  SdkProcessCalls(st3, event, n, i + 1)

\* the pause check placed after the processing of the step's tool calls
SdkStepHandlerLatePause(c, st, ups, lg, event, n, url, rejects) ==
  LET started == SdkStartedUpdate(n, st.currentPageUrl)
      ups1 == Deliver(c, ups, started)
      lg1 == Delivered(c, lg, ups, started)
      st1 == SdkProcessCalls(st, event, n, 1)
      lg2 == IF c.checkPauseState
             THEN Append(lg1, Ev("pause", n, IF rejects THEN 1 ELSE 0))
             ELSE lg1
  IN  IF c.checkPauseState /\ rejects
      THEN [state |-> st1, updates |-> ups1, log |-> lg2, error |-> ErrPaused]
      ELSE IF Len(event.toolCalls) = 0
      THEN [state |-> st, updates |-> ups1, log |-> lg2, error |-> "none"]
      ELSE LET st2 == [st1 EXCEPT !.currentPageUrl = url]
               done == SdkCompletedUpdate(n, st2, event)
           IN  [state |-> st2, updates |-> Deliver(c, ups1, done),
                log |-> Delivered(c, lg2, ups1, done), error |-> "none"]

\* the callback createStepHandler returns, run on one finished SDK step:
\* n is stepNumber after the increment, rejects whether checkPauseState rejects
SdkStepHandler(c, st, ups, lg, event, n, url, rejects) ==
  LET started == SdkStartedUpdate(n, st.currentPageUrl)
      ups1 == Deliver(c, ups, started)
      lg1 == Delivered(c, lg, ups, started)
      lg2 == IF c.checkPauseState
             THEN Append(lg1, Ev("pause", n, IF rejects THEN 1 ELSE 0))
             ELSE lg1
  IN  IF c.checkPauseState /\ rejects
      THEN [state |-> st, updates |-> ups1, log |-> lg2, error |-> ErrPaused]
      ELSE IF Len(event.toolCalls) = 0
      THEN [state |-> st, updates |-> ups1, log |-> lg2, error |-> "none"]
      ELSE LET st1 == SdkProcessCalls(st, event, n, 1)
               st2 == [st1 EXCEPT !.currentPageUrl = url]
               done == SdkCompletedUpdate(n, st2, event)
           IN  [state |-> st2, updates |-> Deliver(c, ups1, done),
                log |-> Delivered(c, lg2, ups1, done), error |-> "none"]

HasClose(r) == \E i \in 1..Len(r.toolCalls) : r.toolCalls[i].name = "close"

\* only close stops the loop
HandleStopCloseOnly(steps, maxSteps) ==
  steps # <<>> /\ HasClose(steps[Len(steps)])

\* only the step count stops the loop
HandleStopCountOnly(steps, maxSteps) == Len(steps) = maxSteps

\* handleStop: the last step called close, or stepCountIs(maxSteps)
HandleStop(steps, maxSteps) ==
  \/ steps # <<>> /\ HasClose(steps[Len(steps)])
  \/ Len(steps) = maxSteps

\* completed reported as true whenever the loop has ended
ConsolidateResultAlwaysCompleted(st, text) ==
  [success |-> st.completed,
   message |-> IF Truthy(st.finalMessage) THEN st.finalMessage
               ELSE Str("Task execution completed"),
   actions |-> st.actions,
   completed |-> TRUE]

\* consolidateMetricsAndResult
ConsolidateResult(st, text) ==
  LET allReasoning == Trim(Join(st.collectedReasoning))
      finalMessage == IF Truthy(st.finalMessage) THEN st.finalMessage
                      ELSE IF Truthy(allReasoning) THEN allReasoning ELSE text
  IN  [success |-> st.completed,
       message |-> IF Truthy(finalMessage) THEN finalMessage
                   ELSE Str("Task execution completed"),
       actions |-> st.actions,
       completed |-> st.completed]

\* success reported whenever actions were taken
RestResultSuccessOnActions(st) ==
  [success |-> st.actions # <<>>, message |-> Str("Task execution completed"),
   actions |-> st.actions, completed |-> st.completed]

\* the result built at the end of executeWithCodeAssist
RestResult(st) ==
  LET allReasoning == Trim(Join(st.collectedReasoning))
      finalMessage == IF Truthy(st.finalMessage) THEN st.finalMessage
                      ELSE IF Truthy(allReasoning) THEN allReasoning
                      ELSE Str("Task execution completed")
  IN  [success |-> st.completed, message |-> finalMessage,
       actions |-> st.actions, completed |-> st.completed]

\* count || 0
OrZero(n) == IF n < 0 THEN 0 ELSE n

\* if (response.usage) totalUsage.x += response.usage.x || 0
AddUsage(total, u) ==
  IF u.present
  THEN [prompt_tokens |-> total.prompt_tokens + OrZero(u.prompt_tokens),
        completion_tokens |-> total.completion_tokens + OrZero(u.completion_tokens)]
  ELSE total

\* the usage field of the result of executeWithCodeAssist
RestUsage(total) ==
  [present |-> TRUE, input_tokens |-> total.prompt_tokens,
   output_tokens |-> total.completion_tokens, reasoning_tokens |-> 0,
   cached_input_tokens |-> 0]

\* result.usage of generateText: the usage of all steps together
RECURSIVE GenerateTextUsage(_)
GenerateTextUsage(steps) ==
  IF steps = <<>> THEN [present |-> FALSE, inputTokens |-> 0, outputTokens |-> 0]
  ELSE LET rest == GenerateTextUsage(SubSeq(steps, 1, Len(steps) - 1))
           u == steps[Len(steps)].usage
       IN  IF ~u.present THEN rest
           ELSE [present |-> TRUE, inputTokens |-> rest.inputTokens + OrZero(u.prompt_tokens),
                 outputTokens |-> rest.outputTokens + OrZero(u.completion_tokens)]

\* the usage field of the result of consolidateMetricsAndResult
ConsolidateUsage(u) ==
  IF u.present
  THEN [present |-> TRUE, input_tokens |-> u.inputTokens, output_tokens |-> u.outputTokens,
        reasoning_tokens |-> 0, cached_input_tokens |-> 0]
  ELSE NoReport

\* this.v3.updateMetrics(V3FunctionName.AGENT, ...) with the counts of a report
AgentIncrement(report) ==
  [functionName |-> "AGENT", promptTokens |-> report.input_tokens,
   completionTokens |-> report.output_tokens, reasoningTokens |-> report.reasoning_tokens,
   cachedInputTokens |-> report.cached_input_tokens]

\* the failure result built without the accumulated actions
CatchResultDropsActions(st, err) ==
  [success |-> FALSE, actions |-> <<>>,
   message |-> <<"Failed to execute task: ", err>>, completed |-> FALSE]

\* the catch block of execute()
CatchResult(st, err) ==
  [success |-> FALSE, actions |-> st.actions,
   message |-> <<"Failed to execute task: ", err>>, completed |-> FALSE]

\* prepareAgent awaited inside the try block of execute()
PrepareFailureCaught(st, err) ==
  Returned([success |-> FALSE, actions |-> st.actions,
            message |-> <<"Failed to execute task: ", err>>, completed |-> FALSE])

\* prepareAgent logs and rethrows; execute() awaits it outside its try block
PrepareFailure(st, err) == Thrown(err)

\* the recording ended on the success path only
AfterExecuteNoDiscard(c, rec, out) ==
  IF c.cache /\ out.kind = "result" THEN EndRecording(rec) ELSE rec

\* the recording session after the try / catch / finally of V3.agent().execute()
AfterExecute(c, rec, out) ==
  IF c.cache
  THEN IF out.kind = "result" THEN DiscardRecording(EndRecording(rec))
       ELSE DiscardRecording(DiscardRecording(rec))
  ELSE rec

---------------------------------------------------------------------------
(* The agent cache: fingerprints, entries, replay and store *)

\* execute options: maxSteps, the callbacks and the page handle
ExecOptions ==
  { [maxSteps |-> 0, onStep |-> FALSE, checkPauseState |-> FALSE, page |-> "none"],
    [maxSteps |-> 0, onStep |-> TRUE, checkPauseState |-> TRUE, page |-> "handle"],
    [maxSteps |-> 1, onStep |-> FALSE, checkPauseState |-> FALSE, page |-> "none"] }

\* agent configurations: the tool-based agent and a CUA agent with a CUA model
AgentConfigs ==
  { [cua |-> FALSE, systemPrompt |-> "p"], [cua |-> TRUE, systemPrompt |-> "p"] }

Instructions == { Str("a"), <<" ", "a", " ">>, Str("b"), Str(" ") }

\* the volatile fields (callbacks, live page handles) are dropped
SanitizeExecuteOptions(o) == [maxSteps |-> o.maxSteps]

\* the signature of an agent configuration is its serialisation
BuildConfigSignature(a) == <<a.cua, a.systemPrompt>>

\* empty instructions are not cached
ShouldAttemptCache(instruction) == Truthy(instruction)

\* the hash of the four inputs, free of collisions
Fingerprint(instruction, options, signature, url) ==
  <<instruction, options, signature, url>>

NullContext ==
  [present |-> FALSE, key |-> Fingerprint(<<>>, SanitizeExecuteOptions([maxSteps |-> 0]),
                                          BuildConfigSignature([cua |-> FALSE, systemPrompt |-> "p"]), 0)]

\* prepareContext: null when caching is disabled
PrepareContext(enabled, instruction, options, signature, url) ==
  IF enabled
  THEN [present |-> TRUE, key |-> Fingerprint(instruction, options, signature, url)]
  ELSE NullContext

\* the instruction is handed to the cache as the caller wrote it
CacheInstructionUntrimmed(instruction) == instruction

\* const instruction = resolvedOptions.instruction.trim()
CacheInstruction(instruction) == Trim(instruction)

\* the cache context that prepareAgentExecution resolves for a call
CacheContextOf(enabled, agent, instruction, options, url) ==
  IF ShouldAttemptCache(CacheInstruction(instruction))
  THEN PrepareContext(enabled, CacheInstruction(instruction), SanitizeExecuteOptions(options),
                      BuildConfigSignature(agent), url)
  ELSE NullContext

NoReplay == [present |-> FALSE, result |-> NoResult]

\* the replayed result loses its actions
TryReplayWithoutActions(cch, ctx, url) ==
  IF ctx.present /\ \E e \in cch : e.key = ctx.key
  THEN LET e == CHOOSE e \in cch : e.key = ctx.key
       IN  [present |-> TRUE, result |-> [e.result EXCEPT !.actions = <<>>]]
  ELSE NoReplay

\* tryReplay: the entry stored under the fingerprint is replayed against
\* the live page and its result is returned, the actions on the current URL
TryReplay(cch, ctx, url) ==
  IF ctx.present /\ \E e \in cch : e.key = ctx.key
  THEN LET e == CHOOSE e \in cch : e.key = ctx.key
       IN  [present |-> TRUE, result |-> [e.result EXCEPT !.actions = Stamp(@, url)]]
  ELSE NoReplay

\* store: persists only a successful result with recorded steps, replacing
\* the entry of the same fingerprint
Store(cch, ctx, steps, result) ==
  IF result.success /\ steps # <<>>
  THEN {e \in cch : e.key # ctx.key} \cup {[key |-> ctx.key, steps |-> steps, result |-> result]}
  ELSE cch

\* endRecording returns the recorded steps
RecordedSteps(rec) == rec.steps

\* every call records
RecordsAlways(ctx) == TRUE

\* const recording = !!cacheContext
Records(ctx) == ctx.present

\* a replayed result is ignored
ReturnsReplayNever(replayed) == FALSE

\* if (replayed) return replayed
ReturnsReplay(replayed) == replayed.present

\* the success flag of the result is not looked at
StoreEligibleAnyResult(ctx, result, steps) == ctx.present /\ Len(steps) > 0

\* if (cacheContext && result.success && agentSteps.length > 0)
StoreEligible(ctx, result, steps) == ctx.present /\ result.success /\ Len(steps) > 0

\* the cache after the try block of V3.agent().execute()
CacheAfterExecute(cch, ctx, rec, out) ==
  IF out.kind = "result" /\ StoreEligible(ctx, out.result, RecordedSteps(rec))
  THEN Store(cch, ctx, RecordedSteps(rec), out.result)
  ELSE cch

IdleCall ==
  [pc |-> "idle", agent |-> [cua |-> FALSE, systemPrompt |-> "p"], instruction |-> <<>>,
   options |-> [maxSteps |-> 0, onStep |-> FALSE, checkPauseState |-> FALSE, page |-> "none"],
   startUrl |-> 0, ctx |-> NullContext, replayed |-> FALSE, began |-> 0, handlerRuns |-> 0,
   storeCalls |-> 0, steps |-> <<>>, out |-> NoOutcome]

---------------------------------------------------------------------------
(* The call *)

\* Configurations: a CUA agent is configured here only with a model that is
\* not a CUA model.
---------------------------------------------------------------------------
(* CodeAssistClient.createChatCompletion: requests and retries              *)

\* retries = 3, the default of the parameter
DefaultRetries == 3

\* errors: what authClient.request throws, and StagehandError
RequestError == [kind |-> "Error", message |-> "network"]
ParseError == [kind |-> "StagehandError", message |-> "Failed to parse JSON response"]

\* no call has been made
IdleClient == [pc |-> "idle", structured |-> FALSE, initial |-> 0, retries |-> 0,
               requests |-> 0, retried |-> <<>>, waiting |-> 0, result |-> NoOutcome]

\* retries may go on below zero
RetryAllowedBelowZero(retries) == retries >= 0

\* if (retries > 0)
RetryAllowed(retries) == retries > 0

\* setTimeout(resolve, 1000 * (4 - retries)); a timer of less than 1 ms
\* lasts 1 ms
RetryDelay(retries) ==
  LET ms == 1000 * (4 - retries) IN IF ms < 1 THEN 1 ELSE ms

\* if (error instanceof StagehandError) throw error;
\* throw new StagehandError(`Code Assist API request failed: ...`)
WrapError(err) ==
  IF err.kind = "StagehandError" THEN err
  ELSE [kind |-> "StagehandError", message |-> "Code Assist API request failed"]

\* the nested call createChatCompletion({ options, logger, retries: retries - 1 })
\* up to its await of authClient.request
NestedCall(c, cause, delay) ==
  [c EXCEPT !.pc = "awaiting", !.retries = @ - 1, !.requests = @ + 1, !.waiting = 0,
            !.retried = Append(@, [cause |-> cause, delay |-> delay])]

\* the catch block of createChatCompletion
CatchBlock(c, err) ==
  IF RetryAllowed(c.retries)
  THEN [c EXCEPT !.pc = "delay", !.waiting = RetryDelay(c.retries)]
  ELSE [c EXCEPT !.pc = "done", !.result = Thrown(WrapError(err))]

\* the catch block around JSON.parse: the nested call is returned, not
\* awaited, so its failure does not reach the catch block of this call
ParseFailure(c) ==
  IF RetryAllowed(c.retries)
  THEN NestedCall(c, "json", 0)
  ELSE CatchBlock(c, ParseError)

---------------------------------------------------------------------------
(* LLMProvider.getClient.  A model name is a sequence of chunks; the chunk  *)
(* "/" is a slash, every other chunk is text without a slash               *)

Slash == "/"

\* modelName.includes("/")
Includes(name, ch) == \E i \in 1..Len(name) : name[i] = ch

\* modelName.indexOf("/"), 1-based
IndexOf(name, ch) ==
  CHOOSE i \in 1..Len(name) : name[i] = ch /\ \A j \in 1..(i - 1) : name[j] # ch

\* modelToProviderMap[modelName]; "none" for a name that is not a key
ModelToProviderMap(name) ==
  CASE name = <<"gpt-4.1">> -> "openai"
    [] name = <<"claude-3-7-sonnet-latest">> -> "anthropic"
    [] name = <<"cerebras-llama-3.1-8b">> -> "cerebras"
    [] name = <<"groq-llama-3.3-70b-versatile">> -> "groq"
    [] name = <<"moonshotai", Slash, "kimi-k2-instruct">> -> "groq"
    [] name = <<"gemini-2.0-flash">> -> "google"
    [] name = <<"gemini-2.5-pro">> -> "google"
    [] OTHER -> "none"

AISDKProviders ==
  { <<p>> : p \in {"openai", "anthropic", "google", "xai", "azure", "groq", "cerebras",
                   "togetherai", "mistral", "deepseek", "perplexity", "ollama"} }

AISDKProvidersWithAPIKey == AISDKProviders \ { <<"ollama">> }

ClientOf(kind, type) == [kind |-> "client", class |-> kind, type |-> type, error |-> "none"]
ThrowsError(e) == [kind |-> "throw", class |-> "none", type |-> "none", error |-> e]

\* getAISDKLanguageModel: whether the sub-provider has a creator
GetAISDKLanguageModel(subProvider, subModelName, apiKey) ==
  IF apiKey THEN subProvider \in AISDKProvidersWithAPIKey
  ELSE subProvider \in AISDKProviders

\* googleOpts?.authClient && googleOpts?.project
GoogleCaseIsOAuth(opts) == opts.authClient /\ opts.project \notin {"undefined", ""}

\* LLMProvider.getClient
GetClientOf(name, opts) ==
  IF Includes(name, Slash)
  THEN LET firstSlashIndex == IndexOf(name, Slash)
           subProvider == SubSeq(name, 1, firstSlashIndex - 1)
           subModelName == SubSeq(name, firstSlashIndex + 1, Len(name))
       IN  IF GetAISDKLanguageModel(subProvider, subModelName, opts.apiKey)
           THEN ClientOf("AISdkClient", "aisdk")
           ELSE ThrowsError("UnsupportedAISDKModelProviderError")
  ELSE LET provider == ModelToProviderMap(name)
       IN  CASE provider = "none" -> ThrowsError("UnsupportedModelError")
             [] provider = "openai" -> ClientOf("OpenAIClient", "openai")
             [] provider = "anthropic" -> ClientOf("AnthropicClient", "anthropic")
             [] provider = "cerebras" -> ClientOf("CerebrasClient", "cerebras")
             [] provider = "groq" -> ClientOf("GroqClient", "groq")
             [] provider = "google" ->
                  IF GoogleCaseIsOAuth(opts)
                  THEN ClientOf("CodeAssistClient", "google-oauth")
                  ELSE ClientOf("GoogleClient", "google")

\* the model names and the client options of the calls
ModelNames ==
  { <<"gpt-4.1">>, <<"claude-3-7-sonnet-latest">>, <<"cerebras-llama-3.1-8b">>,
    <<"groq-llama-3.3-70b-versatile">>, <<"gemini-2.0-flash">>, <<"gemini-2.5-pro">>,
    <<"my-model">>,
    <<"moonshotai", Slash, "kimi-k2-instruct">>,
    <<"google", Slash, "gemini-2.0-flash">>,
    <<"ollama", Slash, "llama3">>,
    <<"openai", Slash, "org", Slash, "gpt">>,
    <<"acme", Slash, "model">> }

ClientOptions == [authClient : BOOLEAN, project : {"undefined", "", "p"}, apiKey : BOOLEAN]

IdleProvider ==
  [pc |-> "idle", modelName |-> <<>>,
   options |-> [authClient |-> FALSE, project |-> "undefined", apiKey |-> FALSE],
   result |-> ThrowsError("none"), backend |-> "none"]

---------------------------------------------------------------------------
(* V3.act() with a string instruction and the act cache                     *)

\* no act() call in progress; entry: the act cache holds an entry for the
\* instruction
IdleAct ==
  [pc |-> "idle", n |-> 0, enabled |-> FALSE, entry |-> FALSE,
   startedRecording |-> FALSE, canUseCache |-> FALSE, ctx |-> FALSE,
   lookedUp |-> FALSE, replayed |-> FALSE, ranHandler |-> FALSE, stored |-> FALSE]

\* the recording session is not consulted
CanUseCacheWhileRecording(isString, isRecording, enabled) == isString /\ enabled

\* typeof input === "string" && !this.isAgentReplayRecording() && this.actCache.enabled
CanUseCache(isString, isRecording, enabled) == isString /\ ~isRecording /\ enabled

\* this.agentCache.isRecording()
IsAgentReplayRecording(rec) == rec.active

\* actCacheContext && actResult.success && Array.isArray(actResult.actions)
\* && actResult.actions.length > 0
ActStoreEligible(ctx, success, actions) == ctx /\ success /\ actions > 0

---------------------------------------------------------------------------
(* Two agent().execute() calls in flight on one V3 instance                 *)

Callers == {1, 2}

\* own: the replay steps the run of the call produced; stored: the steps the
\* call stored under its fingerprint
IdleCalls ==
  [i \in Callers |-> [pc |-> "idle", own |-> <<>>, agentSteps |-> <<>>,
                      stored |-> <<>>, success |-> FALSE]]

---------------------------------------------------------------------------
(* V3.stagehandMetrics and V3.updateMetrics                                 *)

\* the function kinds updateMetrics has a case for
FunctionNames == {"ACT", "EXTRACT", "OBSERVE", "AGENT"}

\* the five counters kept per function kind and in total: the field
\* actPromptTokens is stagehandMetrics.m["act"]["PromptTokens"]
Counters ==
  {"PromptTokens", "CompletionTokens", "ReasoningTokens", "CachedInputTokens",
   "InferenceTimeMs"}

FunctionPrefixes == {"act", "extract", "observe", "agent"}

PrefixOf(functionName) ==
  CASE functionName = "ACT" -> "act"
    [] functionName = "EXTRACT" -> "extract"
    [] functionName = "OBSERVE" -> "observe"
    [] functionName = "AGENT" -> "agent"

\* public stagehandMetrics: every field 0; n counts the updateMetrics calls
ZeroMetrics ==
  [n |-> 0,
   m |-> [k \in FunctionPrefixes \cup {"total"} |-> [c \in Counters |-> 0]]]

\* the arguments promptTokens .. inferenceTimeMs of one call
Amounts == [Counters -> 0..1]

UpdateTotalMetricsTokensOnly(m, v) ==
  [m EXCEPT !["total"] =
     [c \in Counters |-> IF c = "InferenceTimeMs" THEN @[c] ELSE @[c] + v[c]]]

\* updateTotalMetrics
UpdateTotalMetrics(m, v) ==
  [m EXCEPT !["total"] = [c \in Counters |-> @[c] + v[c]]]

\* updateMetrics: the case of the function kind, then the totals
UpdateMetrics(m, functionName, v) ==
  UpdateTotalMetrics(
    IF functionName \in FunctionNames
      THEN [m EXCEPT ![PrefixOf(functionName)] = [c \in Counters |-> @[c] + v[c]]]
      ELSE m,
    v)

---------------------------------------------------------------------------
(* The V3 instance and V3.close()                                           *)

Closers == 1..MaxClosers

\* a close() call: where it is, opts.force, whether another close() call was
\* in progress when it was made, whether it called ctx.close() on a context
\* or chrome.kill(), whether it returned at the no-op guard, whether one of
\* its teardown steps threw
IdleCloser ==
  [pc |-> "idle", force |-> FALSE, overlapped |-> FALSE, tore |-> FALSE,
   noop |-> FALSE, threw |-> FALSE]

\* the instance after the constructor: state UNINITIALIZED, no context, not
\* closing, in V3._instances, no API client
NewInstance ==
  [state |-> "UNINITIALIZED", ctx |-> FALSE, isClosing |-> FALSE,
   registered |-> TRUE, apiClient |-> FALSE,
   closers |-> [i \in Closers |-> IdleCloser]]

\* a close() call that has started and has not ended
InProgress(c) == c.pc \in {"apiEnd", "ctxClose", "kill"}

\* if (this._isClosing && !opts?.force) return
IsNoOp(isClosing, force) == isClosing /\ ~force

\* the finally block of close()
ResetInstance(v) ==
  [v EXCEPT !.state = "UNINITIALIZED", !.ctx = FALSE, !.isClosing = FALSE,
            !.registered = FALSE]

\* the guard of close() and, past it, the code up to the await of
\* this.ctx?.close()
CloseGuard(v, i) ==
  IF IsNoOp(v.isClosing, v.closers[i].force)
    THEN [v EXCEPT !.closers[i].pc = "returned", !.closers[i].noop = TRUE]
    ELSE [v EXCEPT !.isClosing = TRUE,
                   !.closers[i].pc = "ctxClose",
                   !.closers[i].tore = @ \/ v.ctx]

Configs ==
  [cua : BOOLEAN, clientType : {"aisdk", "google-oauth"}, hasLanguageModel : BOOLEAN,
   maxSteps : 0..MaxStepsOpt, onStep : BOOLEAN, checkPauseState : BOOLEAN,
   cache : BOOLEAN]

Init ==
  /\ cfg \in Configs
  /\ prepared = "no"
  /\ pc = "new"
  /\ state = NoState
  /\ stepNumber = 0
  /\ step = 0
  /\ responses = <<>>
  /\ toolIdx = 1
  /\ toolResults = <<>>
  /\ chatMessages = <<>>
  /\ updates = <<>>
  /\ log = <<>>
  /\ page = 0
  /\ recording = NoRecording
  /\ error = "none"
  /\ outcome = NoOutcome
  /\ cache = {}
  /\ exec = IdleCall
  /\ execs = 0
  /\ promise = Pending
  /\ totalUsage = ZeroUsage
  /\ usage = NoReport
  /\ metrics = <<>>
  /\ client = IdleClient
  /\ llm = IdleProvider
  /\ act = IdleAct
  /\ inflight = IdleCalls
  /\ stagehandMetrics = ZeroMetrics
  /\ inst = NewInstance

\* the cache context of the call: one instruction, the options of cfg
RunContext ==
  CacheContextOf(cfg.cache, [cua |-> FALSE, systemPrompt |-> "p"], Str("instruction"),
                 [maxSteps |-> cfg.maxSteps, onStep |-> cfg.onStep,
                  checkPauseState |-> cfg.checkPauseState, page |-> "none"], 0)

CurrentResponse == responses[Len(responses)]
CallsLeft == MaxCalls - SumLen(responses)

\* V3.agent(options): the CUA branch requires a CUA model
AgentCreate ==
  /\ pc = "new"
  /\ IF cfg.cua
     THEN /\ pc' = "done"
          /\ outcome' = Thrown("CuaModelRequiredError")
     ELSE /\ pc' = "agent"
          /\ UNCHANGED outcome
  /\ UNCHANGED <<callVars, sideVars, usageVars, cfg, prepared, state, stepNumber, step, responses, toolIdx, toolResults,
                 chatMessages, updates, log, page, recording, error>>

\* V3.agent().execute(), non-streaming, up to the call of handler.execute():
\* the cache context is resolved, replay misses, recording begins
AgentExecuteBegin ==
  /\ pc = "agent"
  /\ recording' = IF cfg.cache THEN BeginRecording ELSE recording
  /\ pc' = "prepare"
  /\ UNCHANGED <<callVars, sideVars, usageVars, cfg, prepared, state, stepNumber, step, responses, toolIdx, toolResults,
                 chatMessages, updates, log, page, error, outcome>>

\* prepareAgent and the initialisation of AgentState in execute()
PrepareAgent ==
  /\ pc = "prepare"
  /\ \E pageResolves \in BOOLEAN :
       IF ~IsOAuthMode(cfg) /\ ~cfg.hasLanguageModel
       THEN /\ outcome' = PrepareFailure(state, "MissingLLMConfigurationError")
            /\ prepared' = "failed"
            /\ pc' = "handler_done"
            /\ UNCHANGED <<state, chatMessages>>
       ELSE IF ~pageResolves
       THEN /\ outcome' = PrepareFailure(state, "no active page")
            /\ prepared' = "failed"
            /\ pc' = "handler_done"
            /\ UNCHANGED <<state, chatMessages>>
       ELSE /\ state' = [NoState EXCEPT !.currentPageUrl = page]
            /\ prepared' = "ok"
            /\ IF IsOAuthMode(cfg)
               THEN /\ pc' = "rest_loop"
                    /\ chatMessages' =
                         << [role |-> "system", content |-> Str("systemPrompt"), tool_calls |-> <<>>],
                            [role |-> "user", content |-> Str("instruction"), tool_calls |-> <<>>] >>
               ELSE /\ pc' = "sdk_model"
                    /\ UNCHANGED chatMessages
            /\ UNCHANGED outcome
  /\ UNCHANGED <<callVars, sideVars, usageVars, cfg, stepNumber, step, responses, toolIdx, toolResults,
                 updates, log, page, recording, error>>

---------------------------------------------------------------------------
(* The AI SDK backend: llmClient.generateText iterates model call, tool     *)
(* execution and onStepFinish until stopWhen holds                          *)

SdkModelCall ==
  /\ pc = "sdk_model"
  /\ log' = Append(log, Ev("llm", Len(responses) + 1, 0))
  /\ \/ /\ error' = ErrProvider
        /\ pc' = "caught"
        /\ UNCHANGED <<responses, toolIdx>>
     \/ \E r \in Responses(CallsLeft) :
          /\ responses' = Append(responses, r)
          /\ toolIdx' = 1
          /\ pc' = "sdk_tools"
          /\ UNCHANGED error
  /\ UNCHANGED <<callVars, sideVars, usageVars, cfg, prepared, state, stepNumber, step, toolResults, chatMessages, updates,
                 page, recording, outcome>>

\* the SDK runs the execute function of one tool call of the step
SdkToolExec ==
  /\ pc = "sdk_tools"
  /\ toolIdx <= Len(CurrentResponse.toolCalls)
  /\ LET call == CurrentResponse.toolCalls[toolIdx]
         onPage == call.name \in AllTools \ {"close"}
     IN  /\ log' = IF onPage
                   THEN log \o << Ev("tool", Len(responses), toolIdx),
                                  Ev("toolEnd", Len(responses), toolIdx) >>
                   ELSE log
         /\ page' = IF onPage /\ ~call.throws THEN page + 1 ELSE page
         /\ recording' = IF onPage /\ ~call.throws
                         THEN RecordStep(recording, <<Len(responses), toolIdx>>)
                         ELSE recording
  /\ toolIdx' = toolIdx + 1
  /\ UNCHANGED <<callVars, sideVars, usageVars, cfg, prepared, pc, state, stepNumber, step, responses, toolResults,
                 chatMessages, updates, error, outcome>>

\* onStepFinish, then the stop condition, then consolidateMetricsAndResult
SdkStepFinish ==
  /\ pc = "sdk_tools"
  /\ toolIdx > Len(CurrentResponse.toolCalls)
  /\ \E rejects \in BOOLEAN :
       LET event == CurrentResponse
           h == SdkStepHandler(cfg, state, updates, log, event, stepNumber + 1, page, rejects)
       IN  /\ rejects => cfg.checkPauseState
           /\ stepNumber' = stepNumber + 1
           /\ state' = h.state
           /\ updates' = h.updates
           /\ log' = h.log
           /\ error' = h.error
           /\ IF h.error # "none"
              THEN pc' = "caught" /\ UNCHANGED <<outcome, usage, metrics>>
              ELSE IF Len(event.toolCalls) = 0 \/ HandleStop(responses, MaxStepsOf(cfg))
              THEN LET report == ConsolidateUsage(GenerateTextUsage(responses))
                   IN  /\ pc' = "handler_done"
                       /\ outcome' = Returned(ConsolidateResult(h.state, event.text))
                       /\ usage' = report
                       /\ metrics' = IF report.present
                                     THEN Append(metrics, AgentIncrement(report))
                                     ELSE metrics
              ELSE pc' = "sdk_model" /\ UNCHANGED <<outcome, usage, metrics>>
  /\ UNCHANGED <<callVars, sideVars, totalUsage, cfg, prepared, step, responses, toolIdx, toolResults, chatMessages, page, recording>>

---------------------------------------------------------------------------
(* The OAuth backend: executeWithCodeAssist *)

\* the loop stops one step short of maxSteps
RestLoopConditionShort(i, maxSteps, st) == i < maxSteps - 1 /\ ~st.completed

\* for (let step = 0; step < maxSteps && !state.completed; step++)
RestLoopCondition(i, maxSteps, st) == i < maxSteps /\ ~st.completed

\* the failure of a tool call is not reported back to the model
ToolErrorResultDropped(results, reason) == results

\* toolResults.push(JSON.stringify({ error: ... }))
ToolErrorResult(results, reason) == Append(results, <<"error", reason>>)

\* loop condition, pause check, stepNumber++ and the step-started update
RestLoopHead ==
  /\ pc = "rest_loop"
  /\ IF ~RestLoopCondition(step, MaxStepsOf(cfg), state)
     THEN /\ pc' = "rest_finish"
          /\ UNCHANGED <<stepNumber, updates, log>>
     ELSE \E rejects \in BOOLEAN :
            LET lg1 == IF cfg.checkPauseState
                       THEN Append(log, Ev("pause", stepNumber + 1, IF rejects THEN 1 ELSE 0))
                       ELSE log
                started == RestStartedUpdate(stepNumber + 1, state.currentPageUrl)
            IN  /\ rejects => cfg.checkPauseState
                /\ IF rejects
                   THEN /\ pc' = "rest_finish"
                        /\ log' = lg1
                        /\ UNCHANGED <<stepNumber, updates>>
                   ELSE /\ pc' = "rest_model"
                        /\ stepNumber' = stepNumber + 1
                        /\ updates' = Deliver(cfg, updates, started)
                        /\ log' = Delivered(cfg, lg1, updates, started)
  /\ UNCHANGED <<callVars, sideVars, usageVars, cfg, prepared, state, step, responses, toolIdx, toolResults, chatMessages,
                 page, recording, error, outcome>>

\* createChatCompletion and the handling of its response up to the tool loop
RestModelCall ==
  /\ pc = "rest_model"
  /\ log' = Append(log, Ev("llm", stepNumber, 0))
  /\ \/ /\ error' = ErrProvider
        /\ pc' = "caught"
        /\ UNCHANGED <<state, responses, toolIdx, toolResults, chatMessages, totalUsage>>
     \/ \* response.choices is empty
        /\ totalUsage' = AddUsage(totalUsage, NoChoiceUsage)
        /\ pc' = "rest_finish"
        /\ UNCHANGED <<state, responses, toolIdx, toolResults, chatMessages, error>>
     \/ \E r \in Responses(CallsLeft) :
          /\ responses' = Append(responses, r)
          /\ totalUsage' = AddUsage(totalUsage, r.usage)
          /\ state' = IF Truthy(r.text)
                      THEN [state EXCEPT !.collectedReasoning = Append(@, r.text)]
                      ELSE state
          /\ IF Len(r.toolCalls) = 0
             THEN /\ pc' = "rest_finish"
                  /\ UNCHANGED <<toolIdx, toolResults, chatMessages>>
             ELSE /\ pc' = "rest_tools"
                  /\ chatMessages' = Append(chatMessages,
                       [role |-> "assistant", content |-> r.text, tool_calls |-> r.toolCalls])
                  /\ toolResults' = <<>>
                  /\ toolIdx' = 1
          /\ UNCHANGED error
  /\ UNCHANGED <<callVars, sideVars, usage, metrics, cfg, prepared, stepNumber, step, updates,
                 page, recording, outcome>>

\* the tool calls are visited last to first
ToolCallOrderReversed(calls) == [i \in 1..Len(calls) |-> Len(calls) + 1 - i]

\* for (const toolCall of message.toolCalls): the positions of the tool
\* calls in the order the loop visits them
ToolCallOrder(calls) == [i \in 1..Len(calls) |-> i]

CurrentCallPos == ToolCallOrder(CurrentResponse.toolCalls)[toolIdx]

\* the loop goes on to the tool call after close
AfterCloseContinues(i, n) == i + 1

\* break; // Exit tool loop: the loop index once close has been processed
AfterClose(i, n) == n + 1

\* one iteration of the for loop over toolCalls, up to the await of
\* tool.execute
RestToolCall ==
  /\ pc = "rest_tools"
  /\ toolIdx <= Len(CurrentResponse.toolCalls)
  /\ LET call == CurrentResponse.toolCalls[CurrentCallPos]
         text == CurrentResponse.text
         mapped == MapToolResultToActions(call, stepNumber, CurrentCallPos)
     IN  IF call.name = "close"
         THEN LET st1 == PushActions(RestClose(state, call), mapped)
                  done == RestCompletedUpdate(stepNumber, st1, text, mapped)
              IN  /\ state' = st1
                  /\ updates' = Deliver(cfg, updates, done)
                  /\ log' = Delivered(cfg, log, updates, done)
                  /\ toolResults' = Append(toolResults, <<"success">>)
                  /\ toolIdx' = AfterClose(toolIdx, Len(CurrentResponse.toolCalls))
                  /\ UNCHANGED pc
         ELSE IF call.name \notin AllTools
         THEN /\ toolResults' = ToolErrorResult(toolResults, "Unknown tool")
              /\ toolIdx' = toolIdx + 1
              /\ UNCHANGED <<pc, state, updates, log>>
         ELSE /\ log' = Append(log, Ev("tool", stepNumber, CurrentCallPos))
              /\ pc' = "rest_exec"
              /\ UNCHANGED <<state, updates, toolResults, toolIdx>>
  /\ UNCHANGED <<callVars, sideVars, usageVars, cfg, prepared, stepNumber, step, responses, chatMessages, page, recording,
                 error, outcome>>

\* tool.execute settles: the rest of the iteration
RestToolReturn ==
  /\ pc = "rest_exec"
  /\ LET call == CurrentResponse.toolCalls[CurrentCallPos]
         text == CurrentResponse.text
         mapped == MapToolResultToActions(call, stepNumber, CurrentCallPos)
         lg0 == Append(log, Ev("toolEnd", stepNumber, CurrentCallPos))
     IN  IF call.throws
         THEN /\ log' = lg0
              /\ toolResults' = ToolErrorResult(toolResults, "tool failure")
              /\ UNCHANGED <<state, updates, page, recording>>
         ELSE LET st1 == PushActions(state, mapped)
                  st2 == [st1 EXCEPT !.currentPageUrl = page + 1]
                  done == RestCompletedUpdate(stepNumber, st2, text, mapped)
              IN  /\ page' = page + 1
                  /\ recording' = RecordStep(recording, <<stepNumber, CurrentCallPos>>)
                  /\ state' = st2
                  /\ toolResults' = Append(toolResults, <<"result", CurrentCallPos>>)
                  /\ updates' = Deliver(cfg, updates, done)
                  /\ log' = Delivered(cfg, lg0, updates, done)
  /\ toolIdx' = toolIdx + 1
  /\ pc' = "rest_tools"
  /\ UNCHANGED <<callVars, sideVars, usageVars, cfg, prepared, stepNumber, step, responses, chatMessages, error, outcome>>

\* the tool results pushed last to first
ToolResultsMessageReversed(results) ==
  [role |-> "user", content |-> [i \in 1..Len(results) |-> results[Len(results) + 1 - i]],
   tool_calls |-> <<>>]

\* chatMessages.push({ role: "user", content: toolResults.join("\n") })
ToolResultsMessage(results) == [role |-> "user", content |-> results, tool_calls |-> <<>>]

\* the tool results become a user message; the loop stops after close
RestStepEnd ==
  /\ pc = "rest_tools"
  /\ toolIdx > Len(CurrentResponse.toolCalls)
  /\ chatMessages' = Append(chatMessages, ToolResultsMessage(toolResults))
  /\ IF state.completed
     THEN pc' = "rest_finish" /\ UNCHANGED step
     ELSE pc' = "rest_loop" /\ step' = step + 1
  /\ UNCHANGED <<callVars, sideVars, usageVars, cfg, prepared, state, stepNumber, responses, toolIdx, toolResults, updates,
                 log, page, recording, error, outcome>>

\* the final result of executeWithCodeAssist
RestFinish ==
  /\ pc = "rest_finish"
  /\ outcome' = Returned(RestResult(state))
  /\ usage' = RestUsage(totalUsage)
  /\ metrics' = Append(metrics, AgentIncrement(RestUsage(totalUsage)))
  /\ pc' = "handler_done"
  /\ UNCHANGED <<callVars, sideVars, totalUsage, cfg, prepared, state, stepNumber, step, responses, toolIdx, toolResults,
                 chatMessages, updates, log, page, recording, error>>

---------------------------------------------------------------------------

\* the catch block of execute()
ExecuteCatch ==
  /\ pc = "caught"
  /\ outcome' = Returned(CatchResult(state, error))
  /\ pc' = "handler_done"
  /\ UNCHANGED <<callVars, sideVars, usageVars, cfg, prepared, state, stepNumber, step, responses, toolIdx, toolResults,
                 chatMessages, updates, log, page, recording, error>>

\* V3.agent().execute() after handler.execute() returned or threw
AgentExecuteFinish ==
  /\ pc = "handler_done"
  /\ cache' = CacheAfterExecute(cache, RunContext, recording, outcome)
  /\ recording' = AfterExecute(cfg, recording, outcome)
  /\ pc' = "done"
  /\ UNCHANGED <<exec, execs, sideVars, usageVars, cfg, prepared, state, stepNumber, step, responses, toolIdx,
                 toolResults, chatMessages, updates, log, page, error, outcome>>

Next ==
  \/ AgentCreate
  \/ AgentExecuteBegin
  \/ PrepareAgent
  \/ SdkModelCall
  \/ SdkToolExec
  \/ SdkStepFinish
  \/ RestLoopHead
  \/ RestModelCall
  \/ RestToolCall
  \/ RestToolReturn
  \/ RestStepEnd
  \/ RestFinish
  \/ ExecuteCatch
  \/ AgentExecuteFinish

Spec == Init /\ [][Next]_vars

---------------------------------------------------------------------------
(* V3AgentHandler.stream(): llmClient.streamText drives the same loop as   *)
(* generateText and reports through onError and onFinish                   *)

StreamInit ==
  /\ Init
  /\ ~cfg.cua /\ cfg.clientType = "aisdk" /\ ~cfg.cache

\* stream() awaits prepareAgent and returns the AgentStreamResult
StreamBegin ==
  /\ pc = "new"
  /\ pc' = "prepare"
  /\ UNCHANGED <<callVars, sideVars, usageVars, cfg, prepared, state, stepNumber, step, responses, toolIdx,
                 toolResults, chatMessages, updates, log, page, recording, error, outcome>>

\* handleError: rejectResult(error)
HandleError(st, err) == Rejected(err)

\* onError: ({ error }) => handleError(error)
StreamOnError ==
  /\ pc = "caught"
  /\ promise' = HandleError(state, error)
  /\ pc' = "done"
  /\ UNCHANGED <<callVars, usageVars, client, auxVars, cfg, prepared, state, stepNumber, step, responses, toolIdx,
                 toolResults, chatMessages, updates, log, page, recording, error, outcome>>

\* onFinish: resolveResult(consolidateMetricsAndResult(...))
StreamOnFinish ==
  /\ pc = "handler_done"
  /\ outcome.kind = "result"
  /\ promise' = Resolved(outcome.result)
  /\ pc' = "done"
  /\ UNCHANGED <<callVars, usageVars, client, auxVars, cfg, prepared, state, stepNumber, step, responses, toolIdx,
                 toolResults, chatMessages, updates, log, page, recording, error, outcome>>

StreamNext ==
  \/ StreamBegin
  \/ PrepareAgent
  \/ SdkModelCall
  \/ SdkToolExec
  \/ SdkStepFinish
  \/ StreamOnError
  \/ StreamOnFinish

StreamSpec == StreamInit /\ [][StreamNext]_vars

---------------------------------------------------------------------------
(* agent().execute() calls made one after the other on one V3 instance,    *)
(* the handler seen through its outcome                                    *)

CacheInit ==
  /\ Init
  /\ ~cfg.cua /\ cfg.clientType = "aisdk" /\ cfg.hasLanguageModel
  /\ cfg.maxSteps = 0 /\ ~cfg.onStep /\ ~cfg.checkPauseState

\* the caller navigates the page between two calls
Navigate ==
  /\ exec.pc = "idle"
  /\ page' = 1 - page
  /\ UNCHANGED <<cfg, runVars, sideVars, usageVars, recording, callVars>>

\* execute(): prepareAgentExecution resolves the options and the cache context
ExecuteCall ==
  /\ exec.pc = "idle"
  /\ execs < MaxExecs
  /\ execs' = execs + 1
  /\ \E a \in AgentConfigs, i \in Instructions, o \in ExecOptions :
       exec' = [IdleCall EXCEPT !.pc = "replay", !.agent = a, !.instruction = i,
                                !.options = o, !.startUrl = page,
                                !.ctx = CacheContextOf(cfg.cache, a, i, o, page)]
  /\ UNCHANGED <<cfg, runVars, sideVars, usageVars, page, recording, cache>>

\* tryReplay; on a miss the recording begins
ReplayOrRecord ==
  /\ exec.pc = "replay"
  /\ LET replayed == IF exec.ctx.present THEN TryReplay(cache, exec.ctx, page) ELSE NoReplay
     IN  IF ReturnsReplay(replayed)
         THEN /\ exec' = [exec EXCEPT !.pc = "idle", !.replayed = TRUE,
                                       !.out = Returned(replayed.result)]
              /\ page' = 1
              /\ UNCHANGED recording
         ELSE /\ exec' = [exec EXCEPT !.pc = "handler",
                                       !.began = IF Records(exec.ctx) THEN @ + 1 ELSE @]
              /\ recording' = IF Records(exec.ctx) THEN BeginRecording ELSE recording
              /\ UNCHANGED page
  /\ UNCHANGED <<cfg, runVars, sideVars, usageVars, cache, execs>>

\* what handler.execute() can come back with: a result whose success is its
\* completed flag, or an exception; the tools it ran have recorded their steps
HandlerOutcomes(url) ==
  LET goto == MapToolResultToActions(
                [name |-> "goto", taskComplete |-> FALSE, reasoning |-> <<>>,
                 throws |-> FALSE, n |-> 1], 1, 1)
      close == MapToolResultToActions(
                 [name |-> "close", taskComplete |-> TRUE, reasoning |-> <<>>,
                  throws |-> FALSE, n |-> 1], 2, 1)
      result(ran, done) ==
        [success |-> done, completed |-> done,
         message |-> IF done THEN Str("done") ELSE Str("stopped"),
         actions |-> Stamp((IF ran THEN goto ELSE <<>>) \o (IF done THEN close ELSE <<>>), url)]
  IN  {[ran |-> ran, out |-> Returned(result(ran, done))] : ran, done \in BOOLEAN}
        \cup {[ran |-> FALSE, out |-> Thrown("MissingLLMConfigurationError")]}

\* handler.execute(instructionOrOptions)
HandlerExecute ==
  /\ exec.pc = "handler"
  /\ \E h \in HandlerOutcomes(page) :
       /\ exec' = [exec EXCEPT !.pc = "finish", !.handlerRuns = @ + 1, !.out = h.out]
       /\ recording' = IF h.ran THEN RecordStep(recording, <<1, 1>>) ELSE recording
       /\ page' = IF h.ran THEN 1 ELSE page
  /\ UNCHANGED <<cfg, runVars, sideVars, usageVars, cache, execs>>

\* endRecording and store, or the catch block, then the finally block
FinishCall ==
  /\ exec.pc = "finish"
  /\ LET steps == IF exec.out.kind = "result" /\ Records(exec.ctx)
                  THEN RecordedSteps(recording) ELSE <<>>
         stores == exec.out.kind = "result" /\ StoreEligible(exec.ctx, exec.out.result, steps)
     IN  /\ exec' = [exec EXCEPT !.pc = "idle", !.steps = steps,
                                  !.storeCalls = IF stores THEN @ + 1 ELSE @]
         /\ cache' = IF stores THEN Store(cache, exec.ctx, steps, exec.out.result) ELSE cache
         /\ recording' = AfterExecute([cache |-> Records(exec.ctx)], recording, exec.out)
  /\ UNCHANGED <<cfg, runVars, sideVars, usageVars, page, execs>>

CacheNext ==
  \/ Navigate
  \/ ExecuteCall
  \/ ReplayOrRecord
  \/ HandlerExecute
  \/ FinishCall

CacheSpec == CacheInit /\ [][CacheNext]_vars

---------------------------------------------------------------------------
(* One createChatCompletion call of the Code Assist client                  *)

RetryInit ==
  /\ Init
  /\ cfg = CHOOSE c \in Configs : IsOAuthMode(c)

\* everything but the client
restVars == <<cfg, runVars, callVars, promise, usageVars, auxVars, page, recording>>

\* createChatCompletion({ options, logger, retries }) up to the await of
\* authClient.request
CreateChatCompletion ==
  /\ client.pc = "idle"
  /\ \E structured \in BOOLEAN, retries \in 0..MaxRetries :
       client' = [IdleClient EXCEPT !.pc = "awaiting", !.structured = structured,
                                    !.initial = retries, !.retries = retries,
                                    !.requests = 1]
  /\ UNCHANGED restVars

\* authClient.request throws
RequestFails ==
  /\ client.pc = "awaiting"
  /\ client' = CatchBlock(client, RequestError)
  /\ UNCHANGED restVars

\* the timer of the catch block fires: the nested call
DelayElapsed ==
  /\ client.pc = "delay"
  /\ client' = NestedCall(client, "request", client.waiting)
  /\ UNCHANGED restVars

\* a response whose content JSON.parse accepts, or no response_model
ResponseReturned ==
  /\ client.pc = "awaiting"
  /\ client' = [client EXCEPT !.pc = "done",
                   !.result = Returned(IF client.structured THEN "data" ELSE "response")]
  /\ UNCHANGED restVars

\* a response to a structured-output call whose content is not JSON
ResponseMalformed ==
  /\ client.pc = "awaiting"
  /\ client.structured
  /\ client' = ParseFailure(client)
  /\ UNCHANGED restVars

RetryNext ==
  \/ CreateChatCompletion
  \/ RequestFails
  \/ DelayElapsed
  \/ ResponseReturned
  \/ ResponseMalformed

RetrySpec == RetryInit /\ [][RetryNext]_vars

---------------------------------------------------------------------------
(* The choice of the LLM client and of the backend of the agent handler     *)

ProviderInit ==
  /\ Init
  /\ cfg = CHOOSE c \in Configs : TRUE

\* everything but llm
providerRest == <<cfg, runVars, callVars, promise, client, usageVars, page, recording, act, inflight, stagehandMetrics, inst>>

\* a caller picks a model name and client options
ChooseModel ==
  /\ llm.pc = "idle"
  /\ \E name \in ModelNames, opts \in ClientOptions :
       llm' = [llm EXCEPT !.pc = "chosen", !.modelName = name, !.options = opts]
  /\ UNCHANGED providerRest

\* llmProvider.getClient(modelName, clientOptions)
GetClient ==
  /\ llm.pc = "chosen"
  /\ llm' = [llm EXCEPT !.pc = "resolved", !.result = GetClientOf(llm.modelName, llm.options)]
  /\ UNCHANGED providerRest

\* V3AgentHandler.execute with the client: isOAuthMode() routes to
\* executeWithCodeAssist, any other client to the AI SDK path
RouteBackend ==
  /\ llm.pc = "resolved"
  /\ llm.result.kind = "client"
  /\ llm' = [llm EXCEPT !.pc = "routed",
                !.backend = IF IsOAuthMode([clientType |-> llm.result.type])
                            THEN "executeWithCodeAssist" ELSE "generateText"]
  /\ UNCHANGED providerRest

ProviderNext ==
  \/ ChooseModel
  \/ GetClient
  \/ RouteBackend

ProviderSpec == ProviderInit /\ [][ProviderNext]_vars

---------------------------------------------------------------------------
(* V3.act() calls on an instance whose agent opens and closes its replay    *)
(* recording session at any time                                            *)

ActInit ==
  /\ Init
  /\ cfg = CHOOSE c \in Configs : TRUE

\* everything but act and recording
actRest == <<cfg, runVars, callVars, promise, client, usageVars, page, llm, inflight, stagehandMetrics, inst>>

\* agent().execute() begins its recording session
RecordingBegins ==
  /\ ~recording.active
  /\ recording' = BeginRecording
  /\ UNCHANGED <<act, actRest>>

\* agent().execute() ends or discards its recording session
RecordingEnds ==
  /\ recording.active
  /\ recording' = EndRecording(recording)
  /\ UNCHANGED <<act, actRest>>

\* act(instruction) up to await this.actCache.prepareContext, or up to the
\* handler when the cache cannot be used
ActBegin ==
  /\ act.pc = "idle"
  /\ act.n < MaxActs
  /\ \E enabled \in BOOLEAN :
       LET canUseCache == CanUseCache(TRUE, IsAgentReplayRecording(recording), enabled)
       IN  /\ act.n > 0 => enabled = act.enabled
           /\ act' = [act EXCEPT !.pc = IF canUseCache THEN "prepare" ELSE "handler",
                                 !.n = @ + 1, !.enabled = enabled,
                                 !.startedRecording = IsAgentReplayRecording(recording),
                                 !.canUseCache = canUseCache, !.ctx = FALSE,
                                 !.lookedUp = FALSE, !.replayed = FALSE,
                                 !.ranHandler = FALSE, !.stored = FALSE]
  /\ UNCHANGED <<recording, actRest>>

\* prepareContext settles, with a context or with null
ActPrepareContext ==
  /\ act.pc = "prepare"
  /\ \E ctx \in BOOLEAN :
       act' = [act EXCEPT !.ctx = ctx, !.pc = IF ctx THEN "replay" ELSE "handler"]
  /\ UNCHANGED <<recording, actRest>>

\* tryReplay settles: a cached result is returned, or the handler is next
ActTryReplay ==
  /\ act.pc = "replay"
  /\ \E hit \in BOOLEAN :
       /\ hit => act.entry
       /\ act' = [act EXCEPT !.lookedUp = TRUE, !.replayed = hit,
                             !.pc = IF hit THEN "idle" ELSE "handler"]
  /\ UNCHANGED <<recording, actRest>>

\* this.actHandler.act(handlerParams) is called
ActHandlerCall ==
  /\ act.pc = "handler"
  /\ act' = [act EXCEPT !.ranHandler = TRUE, !.pc = "acting"]
  /\ UNCHANGED <<recording, actRest>>

\* the handler settles: history, store when eligible, return
ActHandlerReturn ==
  /\ act.pc = "acting"
  /\ \E success \in BOOLEAN, actions \in 0..1 :
       LET stores == ActStoreEligible(act.ctx, success, actions)
       IN  act' = [act EXCEPT !.stored = stores, !.entry = @ \/ stores, !.pc = "idle"]
  /\ UNCHANGED <<recording, actRest>>

ActNext ==
  \/ RecordingBegins
  \/ RecordingEnds
  \/ ActBegin
  \/ ActPrepareContext
  \/ ActTryReplay
  \/ ActHandlerCall
  \/ ActHandlerReturn

ActSpec == ActInit /\ [][ActNext]_vars

---------------------------------------------------------------------------
(* Overlapping agent().execute() calls: the recording session belongs to    *)
(* the instance, the calls interleave at their awaits                       *)

OverlapInit ==
  /\ Init
  /\ cfg = CHOOSE c \in Configs : TRUE

\* everything but inflight and recording
overlapRest == <<cfg, runVars, callVars, promise, client, usageVars, page, llm, act, stagehandMetrics, inst>>

\* the call prepared its cache context, found nothing to replay and begins
\* its recording: if (recording) this.beginAgentReplayRecording()
CallBegins(i) ==
  /\ inflight[i].pc = "idle"
  /\ recording' = BeginRecording
  /\ inflight' = [inflight EXCEPT ![i].pc = "running"]
  /\ UNCHANGED overlapRest

\* a tool of the call's run acts on the page and records a replay step
CallRecordsStep(i) ==
  /\ inflight[i].pc = "running"
  /\ Len(inflight[i].own) < MaxOwnSteps
  /\ LET s == <<i, Len(inflight[i].own) + 1>>
     IN  /\ recording' = RecordStep(recording, s)
         /\ inflight' = [inflight EXCEPT ![i].own = Append(@, s)]
  /\ UNCHANGED overlapRest

\* handler.execute returns: endAgentReplayRecording, then the store when
\* eligible, up to the await of the store
CallHandlerReturns(i) ==
  /\ inflight[i].pc = "running"
  /\ \E success \in BOOLEAN :
       LET agentSteps == RecordedSteps(recording)
           stores == StoreEligible([present |-> TRUE], [success |-> success], agentSteps)
       IN  inflight' = [inflight EXCEPT ![i].pc = "finally", ![i].agentSteps = agentSteps,
                                  ![i].success = success,
                                  ![i].stored = IF stores THEN agentSteps ELSE <<>>]
  /\ recording' = EndRecording(recording)
  /\ UNCHANGED overlapRest

\* handler.execute throws: the catch block discards the recording
CallHandlerThrows(i) ==
  /\ inflight[i].pc = "running"
  /\ recording' = DiscardRecording(recording)
  /\ inflight' = [inflight EXCEPT ![i].pc = "finally"]
  /\ UNCHANGED overlapRest

\* finally { if (recording) this.discardAgentReplayRecording() }
CallFinally(i) ==
  /\ inflight[i].pc = "finally"
  /\ recording' = DiscardRecording(recording)
  /\ inflight' = [inflight EXCEPT ![i].pc = "done"]
  /\ UNCHANGED overlapRest

OverlapNext ==
  \E i \in Callers :
    \/ CallBegins(i)
    \/ CallRecordsStep(i)
    \/ CallHandlerReturns(i)
    \/ CallHandlerThrows(i)
    \/ CallFinally(i)

OverlapSpec == OverlapInit /\ [][OverlapNext]_vars

---------------------------------------------------------------------------
(* A sequence of V3.updateMetrics calls on one instance                     *)

MetricsInit ==
  /\ Init
  /\ cfg = CHOOSE c \in Configs : TRUE

\* everything but stagehandMetrics
metricsRest == <<cfg, runVars, callVars, promise, client, usageVars, page, recording, llm, act, inflight, inst>>

\* this.updateMetrics(functionName, promptTokens, completionTokens,
\* reasoningTokens, cachedInputTokens, inferenceTimeMs)
UpdateMetricsCall ==
  /\ stagehandMetrics.n < MaxUpdates
  /\ \E functionName \in FunctionNames, v \in Amounts :
       stagehandMetrics' =
         [n |-> stagehandMetrics.n + 1,
          m |-> UpdateMetrics(stagehandMetrics.m, functionName, v)]
  /\ UNCHANGED metricsRest

MetricsNext == UpdateMetricsCall

MetricsSpec == MetricsInit /\ [][MetricsNext]_vars

---------------------------------------------------------------------------
(* init() and close() calls on one V3 instance; the close() calls            *)
(* interleave at their awaits                                               *)

CloseInit ==
  /\ Init
  /\ cfg = CHOOSE c \in Configs : TRUE

\* everything but inst
closeRest == <<cfg, runVars, callVars, promise, client, usageVars, page, recording, llm, act, inflight, stagehandMetrics>>

\* init() returns, before any close() call: a local browser, or a
\* Browserbase session with or without the API client
InitReturns ==
  /\ inst.state = "UNINITIALIZED" /\ inst.registered
  /\ \A i \in Closers : inst.closers[i].pc = "idle"
  /\ \E kind \in {"LOCAL", "BROWSERBASE"}, api \in BOOLEAN :
       /\ api => kind = "BROWSERBASE"
       /\ inst' = [inst EXCEPT !.state = kind, !.ctx = TRUE, !.apiClient = api]
  /\ UNCHANGED closeRest

\* close(opts) is called: with an API client it awaits apiClient.end(),
\* without one it runs on to the guard
CloseBegins(i) ==
  /\ inst.closers[i].pc = "idle"
  /\ \E force \in BOOLEAN :
       LET v == [inst EXCEPT
                   !.closers[i].force = force,
                   !.closers[i].overlapped =
                     \E j \in Closers \ {i} : InProgress(inst.closers[j])]
       IN  inst' = IF inst.apiClient
                     THEN [v EXCEPT !.closers[i].pc = "apiEnd"]
                     ELSE CloseGuard(v, i)
  /\ UNCHANGED closeRest

\* await this.apiClient.end() resolves
ApiEndReturns(i) ==
  /\ inst.closers[i].pc = "apiEnd"
  /\ inst' = CloseGuard(inst, i)
  /\ UNCHANGED closeRest

\* await this.apiClient.end() rejects: close() rejects, before its try block
ApiEndThrows(i) ==
  /\ inst.closers[i].pc = "apiEnd"
  /\ inst' = [inst EXCEPT !.closers[i].pc = "rejected", !.closers[i].threw = TRUE]
  /\ UNCHANGED closeRest

\* await this.ctx?.close() settles, an exception is swallowed; a local
\* Chrome is killed next, otherwise the finally block runs
CtxCloseSettles(i) ==
  /\ inst.closers[i].pc = "ctxClose"
  /\ \E throws \in BOOLEAN :
       LET v == [inst EXCEPT !.closers[i].threw = @ \/ throws]
       IN  inst' = IF inst.state = "LOCAL"
                     THEN [v EXCEPT !.closers[i].pc = "kill", !.closers[i].tore = TRUE]
                     ELSE [ResetInstance(v) EXCEPT !.closers[i].pc = "returned"]
  /\ UNCHANGED closeRest

\* await this.state.chrome.kill() settles, the profile directory is removed,
\* exceptions are swallowed; the finally block runs
KillSettles(i) ==
  /\ inst.closers[i].pc = "kill"
  /\ \E throws \in BOOLEAN :
       inst' = [ResetInstance(inst) EXCEPT !.closers[i].pc = "returned",
                                           !.closers[i].threw = @ \/ throws]
  /\ UNCHANGED closeRest

CloseNext ==
  \/ InitReturns
  \/ \E i \in Closers :
       \/ CloseBegins(i)
       \/ ApiEndReturns(i)
       \/ ApiEndThrows(i)
       \/ CtxCloseSettles(i)
       \/ KillSettles(i)

CloseSpec == CloseInit /\ [][CloseNext]_vars

---------------------------------------------------------------------------
(* Properties *)

HandlerEnded == pc \in {"handler_done", "done"} /\ prepared # "no"
HandlerReturned == HandlerEnded /\ outcome.kind = "result"
Result == outcome.result

IsPrefix(a, b) == Len(a) <= Len(b) /\ SubSeq(b, 1, Len(a)) = a

Unstamp(actions) == [k \in 1..Len(actions) |-> [actions[k] EXCEPT !.pageUrl = 0]]

\* the actions step n records for the tool calls i, i+1, ... of response r:
\* the OAuth loop records nothing for an unknown or throwing tool and stops
\* at close; the step handler of the SDK path maps every tool call
RECURSIVE StepActions(_, _, _, _)
StepActions(oauth, r, n, i) ==
  IF i > Len(r.toolCalls) THEN <<>>
  ELSE LET call == r.toolCalls[i]
           mapped == MapToolResultToActions(call, n, i)
       IN  IF ~oauth THEN mapped \o StepActions(oauth, r, n, i + 1)
           ELSE IF call.name = "close" THEN mapped
           ELSE IF call.name \notin AllTools \/ call.throws
                THEN StepActions(oauth, r, n, i + 1)
           ELSE mapped \o StepActions(oauth, r, n, i + 1)

\* the concatenation of the actions of steps 1..k
RECURSIVE RunActions(_, _, _)
RunActions(oauth, rs, k) ==
  IF k = 0 THEN <<>>
  ELSE RunActions(oauth, rs, k - 1) \o StepActions(oauth, rs[k], k, 1)

ClosedWith(r, tc) ==
  \E i \in 1..Len(r.actions) :
    r.actions[i].type = "close" /\ r.actions[i].taskCompleted = tc

NoCloseReturned == \A k \in 1..Len(responses) : ~HasClose(responses[k])

\* C1 (as claimed): a run whose loop processed close with taskComplete true
\* returns completed = true and success = true; a run whose loop processed
\* close with taskComplete false or omitted returns completed = true and
\* success = false.
C1_CloseDecidesSuccess ==
  HandlerReturned =>
    /\ ClosedWith(Result, TRUE) => Result.completed /\ Result.success
    /\ (ClosedWith(Result, FALSE) /\ ~ClosedWith(Result, TRUE)) =>
         Result.completed /\ ~Result.success

\* C2: a run that executed maxSteps steps, none of which called close,
\* returns completed = false.
C2_MaxStepsWithoutClose ==
  (HandlerReturned /\ Len(responses) = MaxStepsOf(cfg) /\ NoCloseReturned)
    => ~Result.completed

C2_Witness ==
  /\ pc = "done" /\ outcome.kind = "result" /\ error = "none"
  /\ MaxStepsOf(cfg) = 2 /\ Len(responses) = 2 /\ NoCloseReturned
  /\ \A k \in 1..2 : Len(responses[k].toolCalls) > 0
  /\ ~Result.completed

\* C3: state.actions only ever grows at its end, and the actions of a
\* successful result are the in-order concatenation of the actions of every
\* step, each step's actions in tool-call order.
C3_ActionsAppendOnlyInOrder ==
  /\ [][IsPrefix(state.actions, state.actions')]_vars
  /\ []((HandlerReturned /\ Result.success) =>
          Unstamp(Result.actions) = RunActions(IsOAuthMode(cfg), responses, Len(responses)))

C3_Witness ==
  /\ pc = "done" /\ outcome.kind = "result" /\ Result.success
  /\ Len(responses) = 2 /\ Len(Result.actions) >= 3

\* C4: an exception raised inside the loop is caught by execute(), which
\* returns success = false, completed = false, the message "Failed to
\* execute task: <reason>" and the actions accumulated before the exception.
C4_LoopExceptionBecomesResult ==
  (HandlerEnded /\ error # "none") =>
    /\ outcome.kind = "result"
    /\ ~Result.success /\ ~Result.completed
    /\ Result.message = <<"Failed to execute task: ", error>>
    /\ Result.actions = state.actions
    /\ Unstamp(Result.actions) =
         RunActions(IsOAuthMode(cfg), responses,
                    IF error = ErrPaused THEN Len(responses) - 1 ELSE Len(responses))

C4_Witness ==
  /\ pc = "done" /\ error = ErrProvider /\ outcome.kind = "result"
  /\ Len(Result.actions) >= 1

NoStepRan ==
  /\ responses = <<>> /\ log = <<>> /\ updates = <<>>
  /\ stepNumber = 0 /\ state.actions = <<>>

\* C5 (as claimed): a failure of the PREPARING phase is surfaced as an
\* AgentResult with success = false, not as an exception.
C5_PrepareFailureIsResult ==
  (HandlerEnded /\ prepared = "failed") =>
    outcome.kind = "result" /\ ~Result.success

\* C5 (amended): a failure of the PREPARING phase aborts before any step
\* runs and leaves execute() by the exception prepareAgent rethrows; no
\* AgentResult is produced.
C5_PrepareFailureIsThrown ==
  (HandlerEnded /\ prepared = "failed") =>
    /\ outcome.kind = "throw"
    /\ outcome.error \in {"MissingLLMConfigurationError", "no active page"}
    /\ NoStepRan

C5_Witness ==
  /\ pc = "done" /\ prepared = "failed" /\ IsOAuthMode(cfg)
  /\ outcome = Thrown("no active page")

MissingLanguageModel == ~cfg.cua /\ ~IsOAuthMode(cfg) /\ ~cfg.hasLanguageModel

\* C6: a CUA agent with a model that is not a CUA model makes agent() throw
\* CuaModelRequiredError, a client without a language model makes execute()
\* throw MissingLLMConfigurationError; in both cases no model request is
\* issued, no step update is emitted, nothing is tried a second time and no
\* recording session is active once the call has ended.
C6_ConfigurationErrorsThrown ==
  (cfg.cua \/ MissingLanguageModel) =>
    /\ NoStepRan
    /\ pc \notin {"sdk_model", "sdk_tools", "rest_loop", "rest_model", "rest_tools",
                  "rest_exec", "rest_finish", "caught"}
    /\ pc = "done" =>
         /\ outcome = Thrown(IF cfg.cua THEN "CuaModelRequiredError"
                             ELSE "MissingLLMConfigurationError")
         /\ ~recording.active
         /\ cfg.cua => prepared = "no"

C6_Witness ==
  /\ pc = "done" /\ MissingLanguageModel /\ cfg.cache
  /\ outcome = Thrown("MissingLLMConfigurationError")
  /\ ~recording.active

PauseRejectedAt(n) ==
  \E p \in 1..Len(log) : log[p] = Ev("pause", n, 1)

\* C7: when checkPauseState rejects at the boundary of step N, execute()
\* returns a result (nothing is thrown), completed = false, and the actions
\* are those of steps 1..N-1.
C7_PauseRejectionKeepsEarlierSteps ==
  \A p \in 1..Len(log) :
    (HandlerEnded /\ log[p].e = "pause" /\ log[p].idx = 1) =>
      /\ outcome.kind = "result"
      /\ ~Result.completed
      /\ Unstamp(Result.actions) =
           RunActions(IsOAuthMode(cfg), responses, log[p].step - 1)

C7_Witness ==
  /\ pc = "done" /\ PauseRejectedAt(2) /\ outcome.kind = "result"
  /\ Len(Result.actions) >= 1 /\ ~Result.completed

IsWork(ev, n) == ev.e \in {"llm", "tool"} /\ ev.step = n

\* C8 (as claimed): checkPauseState is invoked exactly once per step, after
\* the step-started update of that step and before the model request and the
\* tool executions of that step; when it rejects for step N, no model
\* request and no tool execution of step N happens at all.
C8_PauseCheckBeforeStepWork ==
  cfg.checkPauseState =>
    /\ \A p, q \in 1..Len(log) :
         (log[p].e = "pause" /\ log[q].e = "pause" /\ log[p].step = log[q].step) => p = q
    /\ \A q \in 1..Len(log) :
         log[q].e = "llm" => \E p \in 1..(q - 1) : log[p].e = "pause" /\ log[p].step = log[q].step
    /\ \A p \in 1..Len(log) :
         log[p].e = "pause" =>
           /\ cfg.onStep => \E q \in 1..(p - 1) : log[q].e = "started" /\ log[q].step = log[p].step
           /\ \A q \in 1..(p - 1) : ~IsWork(log[q], log[p].step)
           /\ log[p].idx = 1 => \A q \in 1..Len(log) : ~IsWork(log[q], log[p].step)

\* C9 (as claimed): when onStep is supplied, the step-started update of step
\* N is delivered before any tool call of step N executes against the page.
C9_StartedBeforeTools ==
  cfg.onStep =>
    \A p \in 1..Len(log) :
      log[p].e = "tool" =>
        \E q \in 1..(p - 1) : log[q].e = "started" /\ log[q].step = log[p].step

StartedBefore(i) == {j \in 1..(i - 1) : ~updates[j].completed}

\* C10: the first update of a run has stepNumber 1 and every step-started
\* update has the stepNumber of the previous step-started update plus one.
C10_StepNumbersGapless ==
  /\ updates # <<>> => updates[1].stepNumber = 1 /\ ~updates[1].completed
  /\ \A i \in 1..Len(updates) :
       ~updates[i].completed => updates[i].stepNumber = Cardinality(StartedBefore(i)) + 1

C10_Witness ==
  /\ cfg.checkPauseState
  /\ \E p, q, r \in 1..Len(log) :
       /\ p < q /\ q < r
       /\ log[p].e = "started" /\ log[p].step = 1
       /\ log[q].e = "pause"
       /\ log[r].e = "started" /\ log[r].step = 2

\* C11 (as claimed): in the updates delivered to onStep, the step-started
\* update of step N precedes every step-completed update of step N, every
\* step-completed update of step N precedes the step-started update of step
\* N+1, and the step-started update of step N+1 is only delivered once step
\* N has a step-completed update.
C11_StartedCompletedAlternate ==
  \A i \in 1..Len(updates) :
    /\ updates[i].completed =>
         \E j \in 1..(i - 1) :
           ~updates[j].completed /\ updates[j].stepNumber = updates[i].stepNumber
    /\ ~updates[i].completed =>
         /\ \A j \in 1..Len(updates) :
              (updates[j].completed /\ updates[j].stepNumber < updates[i].stepNumber) => j < i
         /\ updates[i].stepNumber > 1 =>
              \E j \in 1..(i - 1) :
                updates[j].completed /\ updates[j].stepNumber = updates[i].stepNumber - 1

\* C12: once a step's tool calls include close the loop stops: the model is
\* not invoked again and no step-started update of a later step is
\* delivered, whatever is left of maxSteps.
C12_CloseStopsLoop ==
  \A k \in 1..Len(responses) :
    HasClose(responses[k]) =>
      /\ k = Len(responses)
      /\ \A p \in 1..Len(log) : log[p].e \in {"llm", "started"} => log[p].step <= k

C12_Witness ==
  /\ pc = "done" /\ outcome.kind = "result"
  /\ MaxStepsOf(cfg) = DefaultMaxSteps /\ cfg.onStep
  /\ Len(responses) = 1 /\ HasClose(responses[1]) /\ CallsLeft > 0

LlmCalls == Cardinality({p \in 1..Len(log) : log[p].e = "llm"})

EndedNormally ==
  /\ HandlerReturned /\ error = "none"
  /\ \A p \in 1..Len(log) : ~(log[p].e = "pause" /\ log[p].idx = 1)

\* C13 (as claimed): without an exception and without a pause-check
\* rejection the loop only exits once close has been called or maxSteps
\* steps have run.
C13_ExitsOnlyOnCloseOrMaxSteps ==
  EndedNormally => (~NoCloseReturned \/ Len(responses) = MaxStepsOf(cfg))

\* C13 (amended): without an exception and without a pause-check rejection
\* the loop only exits once close has been called, maxSteps steps have run,
\* the model answered without any tool call or, in the OAuth backend, the
\* model's response carried no choice.
C13_ExitsOnlyOnCloseMaxStepsOrNoToolCalls ==
  EndedNormally =>
    \/ ~NoCloseReturned
    \/ Len(responses) = MaxStepsOf(cfg)
    \/ responses # <<>> /\ Len(responses[Len(responses)].toolCalls) = 0
    \/ IsOAuthMode(cfg) /\ LlmCalls = Len(responses) + 1

C13_Witness ==
  /\ pc = "done" /\ EndedNormally /\ IsOAuthMode(cfg)
  /\ MaxStepsOf(cfg) = 2 /\ Len(responses) = 2 /\ NoCloseReturned
  /\ Len(responses[2].toolCalls) > 0

Fails(call) == call.name \notin AllTools \/ call.throws

\* the tool calls of a response that the OAuth loop reaches: all of them, or
\* those up to the first close
Reached(r) ==
  LET closes == {i \in 1..Len(r.toolCalls) : r.toolCalls[i].name = "close"}
  IN  IF closes = {} THEN Len(r.toolCalls)
      ELSE CHOOSE i \in closes : \A j \in closes : i <= j

\* the user message that carries the tool results of step k
ToolResultsOf(k) == chatMessages[2 + 2 * k].content

ToolStarts(p) == {q \in 1..(p - 1) : log[q].e = "tool"}
ToolEnds(p) == {q \in 1..(p - 1) : log[q].e = "toolEnd"}

---------------------------------------------------------------------------
(* Properties of the cache and of the recording session *)

CallEnded == execs > 0 /\ exec.pc = "idle"

\* the fingerprint of the call in progress, from what the caller passed
ExecKey ==
  Fingerprint(Trim(exec.instruction), SanitizeExecuteOptions(exec.options),
              BuildConfigSignature(exec.agent), exec.startUrl)

Entry(key) == CHOOSE e \in cache : e.key = key

\* C16: in the non-streaming paths (tool-based and CUA) store is invoked,
\* and the cache changes, only when the call has a cache context, the
\* result has success = true and endRecording returned at least one step;
\* a failed result, a thrown error or zero recorded steps create no entry.
C16_StoreOnlyWhenEligible ==
  /\ [][(exec'.storeCalls > exec.storeCalls \/ cache' # cache) =>
          /\ exec'.storeCalls = exec.storeCalls + 1
          /\ exec'.ctx.present
          /\ exec'.out.kind = "result" /\ exec'.out.result.success
          /\ exec'.steps # <<>>
          /\ cache' = Store(cache, exec'.ctx, exec'.steps, exec'.out.result)]_vars
  /\ [](CallEnded =>
          /\ exec.storeCalls <= 1
          /\ (exec.out.kind = "throw" \/ ~exec.out.result.success \/ exec.steps = <<>>)
               => exec.storeCalls = 0)

C16_Witness ==
  /\ CallEnded /\ exec.agent.cua /\ exec.storeCalls = 1
  /\ \E e \in cache : e.key = exec.ctx.key /\ e.result = exec.out.result /\ Len(e.steps) = 1

\* C17: a call whose fingerprint has an entry, stored by an earlier call
\* that missed the cache and ran fully, gets its result from tryReplay:
\* execute() returns the replayed result, the handler is not invoked, no
\* recording session begins and store is not called.
C17_CacheHitSkipsHandler ==
  /\ [][(exec.pc = "replay" /\ cfg.cache /\ \E e \in cache : e.key = ExecKey) =>
          /\ exec'.pc = "idle" /\ exec'.replayed
          /\ exec'.out.kind = "result"
          /\ Unstamp(exec'.out.result.actions) = Unstamp(Entry(ExecKey).result.actions)
          /\ exec'.out.result.success = Entry(ExecKey).result.success
          /\ exec'.out.result.message = Entry(ExecKey).result.message
          /\ cache' = cache /\ recording' = recording]_vars
  /\ [](exec.replayed =>
          /\ exec.handlerRuns = 0 /\ exec.began = 0 /\ exec.storeCalls = 0
          /\ ~recording.active)

C17_Witness ==
  /\ CallEnded /\ execs = 2 /\ exec.replayed
  /\ exec.handlerRuns = 0 /\ exec.began = 0 /\ exec.storeCalls = 0
  /\ exec.out.kind = "result" /\ exec.out.result.success

\* C18: an execute() call opens at most one recording session, and only
\* after a cache miss with a cache context; once the call has returned or
\* thrown no session is active, and a discardRecording made then changes
\* nothing.
C18_OneRecordingSessionPerCall ==
  /\ exec.began <= 1
  /\ exec.began = 1 => (exec.ctx.present /\ ~exec.replayed)
  /\ recording.active => (exec.began = 1 /\ exec.pc \in {"handler", "finish"})
  /\ CallEnded => (~recording.active /\ DiscardRecording(recording) = recording)

C18_Witness ==
  /\ CallEnded /\ exec.began = 1 /\ exec.out.kind = "throw" /\ ~recording.active

SameButVolatile(o1, o2) == o1.maxSteps = o2.maxSteps

---------------------------------------------------------------------------
(* Properties of stream() *)

StreamEnded == pc = "done" /\ prepared = "ok"

\* C21 (as claimed): once the stream has finished the result promise of the
\* AgentStreamResult is settled, it is resolved with an AgentResult, and a
\* failure during the run is an AgentResult with success = false, not a
\* rejection of the promise.
C21_StreamFailureIsData ==
  StreamEnded =>
    /\ promise.settled = "resolved"
    /\ error # "none" => ~promise.result.success

---------------------------------------------------------------------------
(* Properties of the token accounting *)

\* the prompt and completion counts that the responses of the run reported
ReportedByResponses ==
  LET u == GenerateTextUsage(responses)
      noChoice == error = "none" /\ LlmCalls = Len(responses) + 1
  IN  [prompt |-> u.inputTokens + (IF noChoice THEN OrZero(NoChoiceUsage.prompt_tokens) ELSE 0),
       completion |-> u.outputTokens
                        + (IF noChoice THEN OrZero(NoChoiceUsage.completion_tokens) ELSE 0)]

UsageReportedOnce ==
  /\ usage.present
  /\ usage.input_tokens = ReportedByResponses.prompt
  /\ usage.output_tokens = ReportedByResponses.completion
  /\ usage.reasoning_tokens = 0 /\ usage.cached_input_tokens = 0
  /\ metrics = <<AgentIncrement(usage)>>

\* C22 (as claimed): in the OAuth backend the usage of the final
\* AgentResult carries the sums of the prompt and completion counts that
\* the responses of all steps reported, reasoning and cached-input counts
\* of 0, and V3.updateMetrics receives exactly one AGENT increment per run,
\* with the same totals.
C22_UsageSummedAndReportedOnce ==
  (IsOAuthMode(cfg) /\ HandlerReturned) => UsageReportedOnce

\* C23: a createChatCompletion call issues at most retries + 1 requests,
\* whatever mix of request failures and malformed JSON it meets, and when it
\* fails it has used all of them and fails with a StagehandError.
C23_RequestsBounded ==
  /\ client.requests <= client.initial + 1
  /\ (client.pc = "done" /\ client.result.kind = "throw") =>
       /\ client.result.error.kind = "StagehandError"
       /\ client.requests = client.initial + 1

\* a call with the default retries that failed after four requests, retried
\* for both causes
C23_Witness ==
  /\ client.pc = "done"
  /\ client.result.kind = "throw"
  /\ client.initial = DefaultRetries
  /\ client.requests = 4
  /\ \E i, j \in 1..Len(client.retried) :
       client.retried[i].cause = "request" /\ client.retried[j].cause = "json"

\* C24 (as claimed): every retry of createChatCompletion, for a request
\* failure or for malformed JSON, comes after a delay, and the delays do not
\* decrease from one retry to the next.
C24_RetriesDelayed ==
  \A i \in 1..Len(client.retried) :
    /\ client.retried[i].delay > 0
    /\ i > 1 => client.retried[i - 1].delay <= client.retried[i].delay

\* the run ended on a close call that is the last tool call of the last
\* response and the only close call of that response
ClosedLast ==
  /\ HandlerReturned /\ error = "none" /\ state.completed
  /\ responses # <<>>
  /\ LET calls == responses[Len(responses)].toolCalls
     IN  /\ calls # <<>>
         /\ \A i \in 1..Len(calls) : calls[i].name = "close" <=> i = Len(calls)

LastCall == LET calls == responses[Len(responses)].toolCalls IN calls[Len(calls)]

\* C26 (as claimed): after close with taskComplete the final message is the
\* collected reasoning joined by spaces followed by the reasoning argument of
\* close, trimmed, or "Task completed successfully" when there is no reasoning
\* at all; after close without taskComplete it is "Task could not be
\* completed"; in both backends.
C26_CloseFinalMessage ==
  ClosedLast =>
    LET allReasoning == Join(state.collectedReasoning)
    IN  Result.message =
          IF LastCall.taskComplete
          THEN IF Truthy(LastCall.reasoning) \/ Truthy(allReasoning)
               THEN Trim(allReasoning \o <<" ">> \o LastCall.reasoning)
               ELSE Str("Task completed successfully")
          ELSE Str("Task could not be completed")

\* the page tools of a response that succeed, each one a navigation
Navigations(r) ==
  Cardinality({i \in 1..Len(r.toolCalls) :
                 r.toolCalls[i].name \in AllTools \ {"close"} /\ ~r.toolCalls[i].throws})

\* the URL of the page once the SDK has run the tools of the first k responses
RECURSIVE SdkPage(_, _)
SdkPage(rs, k) == IF k = 0 THEN 0 ELSE SdkPage(rs, k - 1) + Navigations(rs[k])

\* the AI SDK backend run on the responses rs, no pause check rejecting:
\* the step handler applied to the first k steps
RECURSIVE SdkRun(_, _, _)
SdkRun(c, rs, k) ==
  IF k = 0 THEN [state |-> NoState, updates |-> <<>>]
  ELSE LET prev == SdkRun(c, rs, k - 1)
           h == SdkStepHandler(c, prev.state, prev.updates, <<>>, rs[k], k, SdkPage(rs, k), FALSE)
       IN  [state |-> h.state, updates |-> h.updates]

\* the AI SDK backend consumes exactly the responses rs: its loop stops at
\* the last of them and not before
SdkStopsAtEnd(rs, maxSteps) ==
  /\ rs # <<>>
  /\ \A k \in 1..Len(rs) :
       (Len(rs[k].toolCalls) = 0 \/ HandleStop(SubSeq(rs, 1, k), maxSteps)) <=> k = Len(rs)

\* what the claim compares of a result and of a step update
ResultView(r) ==
  [success |-> r.success, completed |-> r.completed, message |-> r.message, actions |-> r.actions]
UpdateViews(ups) ==
  [i \in 1..Len(ups) |-> [stepNumber |-> ups[i].stepNumber, completed |-> ups[i].completed,
                          actions |-> ups[i].actions]]

\* C25 (as claimed): a finished run of the OAuth backend and the AI SDK
\* backend run on the same responses, tool results and pause-check outcomes
\* return results with equal success, completed, message and actions and
\* deliver the same step updates (step number, completed flag, actions).
C25_BackendsEquivalent ==
  ( /\ IsOAuthMode(cfg) /\ EndedNormally
    /\ stepNumber = Len(responses)
    /\ SdkStopsAtEnd(responses, MaxStepsOf(cfg)) ) =>
    LET sdk == SdkRun(cfg, responses, Len(responses))
        text == responses[Len(responses)].text
    IN  /\ ResultView(Result) = ResultView(ConsolidateResult(sdk.state, text))
        /\ UpdateViews(updates) = UpdateViews(sdk.updates)

\* C27 (as claimed): every completed update delivered to onStep carries
\* exactly the actions its step appended to state.actions and no action of an
\* earlier step, whether the tool results map to zero, one or several
\* actions.
C27_CompletedCarriesStepActions ==
  HandlerEnded =>
    \A p \in 1..Len(updates) :
      updates[p].completed =>
        LET n == updates[p].stepNumber
        IN  /\ \A q \in 1..Len(updates[p].actions) : updates[p].actions[q].call[1] = n
            /\ Unstamp(updates[p].actions) = StepActions(IsOAuthMode(cfg), responses[n], n, 1)

\* the positions in updates of the completed updates of step n
CompletedOf(n) == {p \in 1..Len(updates) : updates[p].completed /\ updates[p].stepNumber = n}

\* C28 (as claimed): every step whose model response was obtained gets
\* exactly one completed update, emitted after all the tool calls of the
\* step: never two, never none.
C28_OneCompletedPerStep ==
  (EndedNormally /\ cfg.onStep) =>
    \A n \in 1..Len(responses) : Cardinality(CompletedOf(n)) = 1

\* a measure of what is left of a run: the steps not yet begun, then the
\* position inside the current step
StepWeight == 2 * MaxCalls + 6
ToolsLeft == 2 * (Len(CurrentResponse.toolCalls) + 1 - toolIdx)
Rank ==
  LET ahead == StepWeight * (MaxStepsOf(cfg) + 1 - Len(responses))
  IN  CASE pc = "new" -> StepWeight * (MaxStepsOf(cfg) + 2) + 2
        [] pc = "agent" -> StepWeight * (MaxStepsOf(cfg) + 2) + 1
        [] pc = "prepare" -> StepWeight * (MaxStepsOf(cfg) + 2)
        [] pc = "sdk_model" -> ahead
        [] pc = "sdk_tools" -> ahead + 1 + ToolsLeft
        [] pc = "rest_loop" -> ahead + 3
        [] pc = "rest_model" -> ahead + 2
        [] pc = "rest_tools" -> ahead + 5 + ToolsLeft
        [] pc = "rest_exec" -> ahead + 4 + ToolsLeft
        [] pc \in {"rest_finish", "caught"} -> 3
        [] pc = "handler_done" -> 2
        [] OTHER -> 1

\* the step bound of C29
StepsBounded ==
  /\ LlmCalls <= MaxStepsOf(cfg)
  /\ stepNumber <= MaxStepsOf(cfg)
  /\ \A p \in 1..Len(updates) : updates[p].stepNumber <= MaxStepsOf(cfg)

\* C29 (as claimed): execute() makes at most maxSteps model invocations, 20
\* when maxSteps is omitted, no update has a stepNumber above maxSteps, and a
\* call in which every LLM call, pause check and tool execution returned ends
\* with a result.
C29_EndsWithResult ==
  /\ StepsBounded
  /\ (pc = "done" /\ prepared # "no" /\ error = "none") => outcome.kind = "result"

\* C29 (amended): execute() makes at most maxSteps model invocations, 20
\* when maxSteps is omitted, and no update has a stepNumber above maxSteps;
\* every step of a call brings its end nearer, so the call terminates; once
\* prepareAgent has succeeded the call ends with a result, while a failure of
\* prepareAgent is thrown to the caller.
C29_BoundedAndTerminates ==
  /\ [](/\ StepsBounded
        /\ Rank \in Nat
        /\ (pc = "done" /\ prepared = "ok") => outcome.kind = "result"
        /\ (pc = "done" /\ prepared = "failed") => outcome.kind = "throw")
  /\ [][Rank' < Rank]_vars

\* a run that used all of its maxSteps model invocations without close and
\* ended with a result
C29_Witness ==
  /\ pc = "done" /\ prepared = "ok" /\ error = "none"
  /\ cfg.maxSteps = 2
  /\ LlmCalls = MaxStepsOf(cfg) /\ Len(responses) = MaxStepsOf(cfg)
  /\ ~state.completed
  /\ outcome.kind = "result"

\* a pause check of the run rejected
PauseRejected == \E p \in 1..Len(log) : log[p].e = "pause" /\ log[p].idx = 1

\* the message of the catch block of execute()
IsErrorMessage(m) == m # <<>> /\ m[1] = "Failed to execute task: "

\* C30 (as claimed): a run stopped by a pause-check rejection is a clean
\* stop: when the cache context is present and replay steps were recorded,
\* the run returns a result whose message is not an error message and the
\* result is stored in the cache.
C30_PausedRunStored ==
  [][ ( /\ pc = "handler_done" /\ pc' = "done"
        /\ PauseRejected
        /\ RunContext.present
        /\ Len(RecordedSteps(recording)) > 0 ) =>
      ( /\ outcome.kind = "result"
        /\ ~IsErrorMessage(outcome.result.message)
        /\ outcome.result.actions = state.actions
        /\ cache' # cache ) ]_vars

\* the call of getClient has returned or thrown
Resolved31 == llm.pc \in {"resolved", "routed"}

\* C31 (as claimed): getClient returns a CodeAssistClient, which routes the
\* handler to the REST backend, exactly when the model name has no slash,
\* maps to provider google and the options carry authClient and project; a
\* model name with a slash always yields an AISdkClient, a google model
\* without both fields a GoogleClient, and an unknown model name throws
\* UnsupportedModelError.
C31_ClientSelection ==
  Resolved31 =>
    LET name == llm.modelName
        both == llm.options.authClient /\ llm.options.project = "p"
        google == ~Includes(name, Slash) /\ ModelToProviderMap(name) = "google"
    IN  /\ llm.result.class = "CodeAssistClient" <=> (google /\ both)
        /\ llm.pc = "routed" =>
             (llm.backend = "executeWithCodeAssist" <=> llm.result.class = "CodeAssistClient")
        /\ Includes(name, Slash) => llm.result.class = "AISdkClient"
        /\ (google /\ ~both) => llm.result.class = "GoogleClient"
        /\ (~Includes(name, Slash) /\ ModelToProviderMap(name) = "none") =>
             llm.result.error = "UnsupportedModelError"

\* C32: in every AgentResult that V3AgentHandler.execute returns, from
\* either backend, after a normal exit or from the catch block, success
\* equals completed.
C32_SuccessEqualsCompleted ==
  HandlerReturned => Result.success = Result.completed

\* the OAuth backend returned after a step with actions that did not call
\* close
C32_Witness ==
  /\ HandlerReturned /\ IsOAuthMode(cfg) /\ error = "none"
  /\ Result.actions # <<>>
  /\ ~Result.success /\ ~Result.completed

\* C33: in the OAuth backend, once close has been processed no later tool
\* call of the same step is executed, none adds an action or a tool result,
\* and the close action is the last action of the run.
C33_NothingAfterClose ==
  (IsOAuthMode(cfg) /\ HandlerReturned /\ state.completed) =>
    LET k == Len(responses)
        c == Reached(responses[k])
        last == state.actions[Len(state.actions)]
    IN  /\ \A p \in 1..Len(log) :
             (log[p].e = "tool" /\ log[p].step = k) => log[p].idx < c
        /\ Len(ToolResultsOf(k)) = c
        /\ \A q \in 1..Len(state.actions) :
             state.actions[q].call[1] = k => state.actions[q].call[2] <= c
        /\ last.type = "close" /\ last.call = <<k, c>>
        /\ Result.actions = state.actions

\* a run of the OAuth backend whose last response has a tool call after close
C33_Witness ==
  /\ IsOAuthMode(cfg) /\ HandlerReturned /\ state.completed
  /\ Reached(responses[Len(responses)]) < Len(responses[Len(responses)].toolCalls)

\* the tool result the OAuth loop pushes for tool call i of a response
ExpectedToolResult(call, i) ==
  IF call.name = "close" THEN <<"success">>
  ELSE IF call.name \notin AllTools THEN <<"error", "Unknown tool">>
  ELSE IF call.throws THEN <<"error", "tool failure">>
  ELSE <<"result", i>>

\* the steps of the run whose response returned tool calls
StepsWithCalls == {j \in 1..Len(responses) : responses[j].toolCalls # <<>>}

\* the OAuth loop is between two steps, about to call the model, or over
BetweenSteps ==
  /\ IsOAuthMode(cfg) /\ prepared = "ok"
  /\ pc \in {"rest_loop", "rest_model", "rest_finish", "caught", "handler_done", "done"}

\* C34: in the OAuth backend the conversation is [system, user(instruction)]
\* followed by one (assistant with tool calls, user with tool results) pair
\* per step that returned tool calls: 2 + 2k messages after k such steps,
\* every assistant message directly followed by one user message that holds
\* one result per tool call processed in the step, in tool-call order.
C34_ConversationShape ==
  BetweenSteps =>
    LET k == Cardinality(StepsWithCalls)
    IN  /\ Len(chatMessages) = 2 + 2 * k
        /\ chatMessages[1].role = "system" /\ chatMessages[2].role = "user"
        /\ chatMessages[2].content = Str("instruction")
        /\ StepsWithCalls = 1..k
        /\ \A j \in 1..k :
             LET asst == chatMessages[1 + 2 * j]
                 user == chatMessages[2 + 2 * j]
                 calls == responses[j].toolCalls
             IN  /\ asst.role = "assistant" /\ asst.tool_calls = calls
                 /\ asst.content = responses[j].text
                 /\ user.role = "user" /\ user.tool_calls = <<>>
                 /\ Len(user.content) = Reached(responses[j])
                 /\ \A i \in 1..Len(user.content) :
                      user.content[i] = ExpectedToolResult(calls[i], i)

\* a finished conversation whose first step processed two tool calls, one
\* of which failed
C34_Witness ==
  /\ BetweenSteps /\ pc = "done"
  /\ Len(chatMessages) >= 4
  /\ Len(chatMessages[4].content) = 2
  /\ \E i \in 1..2 : chatMessages[4].content[i][1] = "error"

\* the number of entries of collectedReasoning equal to the text t
TimesCollected(t) ==
  Cardinality({q \in 1..Len(state.collectedReasoning) : state.collectedReasoning[q] = t})

\* the number of steps whose response had the text t
TimesSaid(t) == Cardinality({j \in 1..Len(responses) : responses[j].text = t})

\* C35 (as claimed): the reasoning text of a step is appended to
\* collectedReasoning at most once, whatever the number of tool calls of the
\* step: after n steps collectedReasoning has at most n entries and no
\* step's reasoning appears twice.
C35_ReasoningOncePerStep ==
  prepared = "ok" =>
    /\ Len(state.collectedReasoning) <= Len(responses)
    /\ \A t \in Texts : TimesCollected(t) <= TimesSaid(t)

\* the step looks up the act cache, or stores into it
ActLooksUp == act.pc = "replay" /\ act'.pc # "replay"
ActStores == act.pc = "acting" /\ act'.stored

C37_OwnStepsStored ==
  \A i \in Callers :
    /\ (inflight[i].pc \in {"finally", "done"} /\ inflight[i].success) =>
         inflight[i].stored = inflight[i].own
    /\ (inflight[i].pc = "running" /\ inflight[i].own # <<>>) => recording.active

\* the sum of the four per-function counters c
PerFunctionSum(c) ==
  stagehandMetrics.m["act"][c] + stagehandMetrics.m["extract"][c]
    + stagehandMetrics.m["observe"][c] + stagehandMetrics.m["agent"][c]

TotalsAreSums == \A c \in Counters : stagehandMetrics.m["total"][c] = PerFunctionSum(c)

\* the step changed at most the counters of one function kind
OneKindChanged ==
  \E k \in FunctionPrefixes :
    \A j \in FunctionPrefixes \ {k} : stagehandMetrics'.m[j] = stagehandMetrics.m[j]

\* C38: after any sequence of updateMetrics calls for ACT, EXTRACT, OBSERVE
\* and AGENT every total counter equals the sum of the four per-function
\* counters of its kind, and a call changes the per-function counters of
\* one kind only.
C38_TotalsAreSums == []TotalsAreSums /\ [][OneKindChanged]_vars

\* two calls for different kinds were made and every total counter is
\* positive
C38_Witness ==
  /\ stagehandMetrics.n = 2
  /\ \A c \in Counters : stagehandMetrics.m["total"][c] > 0
  /\ stagehandMetrics.m["act"]["PromptTokens"] = 1
  /\ stagehandMetrics.m["agent"]["InferenceTimeMs"] = 1

\* close() call i returns in this step
CloseReturns(i) == inst.closers[i].pc # "returned" /\ inst'.closers[i].pc = "returned"

\* state UNINITIALIZED, context null, _isClosing false, not in V3._instances
IsReset(v) == v.state = "UNINITIALIZED" /\ ~v.ctx /\ ~v.isClosing /\ ~v.registered

\* a non-forced call made while another call was in progress tore nothing down
NoSecondTeardown ==
  \A i \in Closers :
    (inst.closers[i].overlapped /\ ~inst.closers[i].force) => ~inst.closers[i].tore

\* C39 (as claimed): when a close() call returns, other than at the no-op
\* guard, the state is UNINITIALIZED, the context is null, _isClosing is
\* false and the instance is out of the registry, whichever teardown steps
\* threw; and a non-forced close() called while another close() is in
\* progress performs no teardown of context or browser.
C39_ClosedAfterClose ==
  /\ []NoSecondTeardown
  /\ [][\A i \in Closers : (CloseReturns(i) /\ ~inst'.closers[i].noop) => IsReset(inst')]_vars

====
